---- MODULE Spec2Model ----
(***************************************************************************)
(* Model of pyGeo (src/pyGeo_NM.py): topology stitching                    *)
(* (calcEdgeConnectivity, addDGEdge), global numbering                     *)
(* (_setEdgeConnectivity, calcGlobalNumbering), the connectivity file      *)
(* (writeEdgeConnectivity, readEdgeConnectivity) and the registration of   *)
(* Normal and Local design-variable groups (addGeoDVNormal, addGeoDVLocal, *)
(* geoDVNormal, geoDVLocal, removeCoef).                                   *)
(*                                                                         *)
(* Conventions.  Ids stored in the state (surface, node, edge, global      *)
(* coefficient ids, grid indices i,j, edge slots 0..3) are 0-based as in   *)
(* the Python source; TLA+ sequences are 1-based, so list[k] of the source *)
(* is list[k+1] here.  Points are pairs of integers and a distance test    *)
(* e_dist(a,b) < tol is made on the squared distance.  A Python exception  *)
(* is modelled by the action leaving the mutations made before the raise   *)
(* and recording the exception's name in err.                              *)
(***************************************************************************)
EXTENDS Integers, Sequences, FiniteSets, TLC

VARIABLES
    surfs,          \* self.surfs: the patches (corners, edge midpoints, Nctlu, Nctlv)
    node_link,      \* self.node_link[isurf][inode]
    edge_list,      \* self.edge_list: edge objects
    edge_link,      \* self.edge_link[isurf][iedge]
    edge_dir,       \* self.edge_dir[isurf][iedge]
    Ncoef,          \* self.Ncoef
    g_index,        \* self.g_index: per global id, the list of [isurf,i,j]
    l_index,        \* self.l_index: per surface, (i,j) -> global id
    file,           \* the connectivity file, as the list of its lines
    DV_listNormal,  \* self.DV_listNormal
    DV_listLocal,   \* self.DV_listLocal
    DV_namesNormal, \* self.DV_namesNormal
    DV_namesLocal,  \* self.DV_namesLocal
    src,            \* history: the call the stored topology comes from
    err,            \* history: "ok" or the exception the last call raised
    written,        \* history: topology and index when the file was written
    calls,          \* history: the design-variable registrations made so far
    surf_coef,      \* self.surfs[isurf].coef: per surface, (i,j) -> control point
    coef,           \* self.coef: the reduced (complex) coefficient vector
    ref_axis,       \* self.ref_axis
    ref_axis_con,   \* self.ref_axis_con: [axis1, axis2, con_type]
    DV_listGlobal,  \* self.DV_listGlobal
    DV_namesGlobal, \* self.DV_namesGlobal
    dCoefdx,        \* self.dCoefdx: the columns of the Jacobian, or none
    steps,          \* history: the steps the last update or calcCtlDeriv ran
    order,          \* per surface, the spline orders ku and kv
    fit,            \* fitSurfaces: where the running call is, what it has done
    jac,            \* what the last _initJacobian call returned: dv_link, nCols
    sub,            \* the last sub-topology asked for and the numbering made of it
    lift,           \* history: the array lengths the lifting-surface constructor got
    ndv,            \* what the last getSizes call returned
    dgrun,          \* the design-group assignment in progress: counters, call stack
    updates         \* history: the number of update() calls made

vars == <<surfs, node_link, edge_list, edge_link, edge_dir, Ncoef, g_index,
          l_index, file, DV_listNormal, DV_listLocal, DV_namesNormal,
          DV_namesLocal, src, err, written, calls, surf_coef, coef, ref_axis,
          ref_axis_con, DV_listGlobal, DV_namesGlobal, dCoefdx, steps, order,
          fit, jac, sub, lift, ndv, dgrun, updates>>

topoVars == <<node_link, edge_list, edge_link, edge_dir>>
indexVars == <<Ncoef, g_index, l_index>>
dvVars == <<DV_listNormal, DV_listLocal, DV_namesNormal, DV_namesLocal>>
axisVars == <<ref_axis, ref_axis_con, DV_listGlobal, DV_namesGlobal, dCoefdx,
              steps>>
fitVars == <<order, fit, jac, sub, lift, ndv, dgrun, updates>>

-----------------------------------------------------------------------------
(* Bounds *)

MaxNctl == 4        \* control points per direction range over 2..MaxNctl
MaxDV == 2          \* design-variable registrations made in one run

-----------------------------------------------------------------------------
(* Small utilities *)

Min(S) == CHOOSE x \in S : \A y \in S : x <= y
Max(S) == CHOOSE x \in S : \A y \in S : x >= y
Range(s) == {s[k] : k \in DOMAIN s}

RECURSIVE SumSeq(_)
SumSeq(s) == IF s = <<>> THEN 0 ELSE Head(s) + SumSeq(Tail(s))

nSurf == Len(surfs)

-----------------------------------------------------------------------------
(* geo_utils helpers (the module is imported by the source but is not part *)
(* of it)                                                                  *)

\* e_dist(x1,x2) < tol, on integer points
e_dist_sq(x1, x2) == (x1[1] - x2[1]) * (x1[1] - x2[1]) + (x1[2] - x2[2]) * (x1[2] - x2[2])
e_dist_lt(x1, x2, tol) == e_dist_sq(x1, x2) < tol * tol

\* the two corner slots that bound edge slot iedge
nodesFromEdge(iedge) ==
    CASE iedge = 0 -> <<0, 1>>
      [] iedge = 1 -> <<2, 3>>
      [] iedge = 2 -> <<0, 2>>
      [] iedge = 3 -> <<1, 3>>

\* the edge slot design groups propagate to
flipEdge(iedge) == 3 - iedge

\* classification of grid location (i,j) of an N x M grid:
\* type 0 interior, 1 edge, 2 corner
indexPosition(i, j, N, M) ==
    CASE i > 0 /\ i < N - 1 /\ j > 0 /\ j < M - 1 -> [type |-> 0, edge |-> -1, node |-> -1, index |-> -1]
      [] i > 0 /\ i < N - 1 /\ j = 0     -> [type |-> 1, edge |-> 0, node |-> -1, index |-> i]
      [] i > 0 /\ i < N - 1 /\ j = M - 1 -> [type |-> 1, edge |-> 1, node |-> -1, index |-> i]
      [] i = 0 /\ j > 0 /\ j < M - 1     -> [type |-> 1, edge |-> 2, node |-> -1, index |-> j]
      [] i = N - 1 /\ j > 0 /\ j < M - 1 -> [type |-> 1, edge |-> 3, node |-> -1, index |-> j]
      [] i = 0 /\ j = 0                  -> [type |-> 2, edge |-> -1, node |-> 0, index |-> -1]
      [] i = N - 1 /\ j = 0             -> [type |-> 2, edge |-> -1, node |-> 1, index |-> -1]
      [] i = 0 /\ j = M - 1             -> [type |-> 2, edge |-> -1, node |-> 2, index |-> -1]
      [] OTHER                           -> [type |-> 2, edge |-> -1, node |-> 3, index |-> -1]

-----------------------------------------------------------------------------
(* pySpline surface primitives used by the stitcher *)

getOrigValueCorner(s, inode) == s.corner[inode + 1]
\* getOrigValuesEdge returns (beg, mid_point, end); only mid_point is used
getOrigValuesEdge(s, iedge) == s.mid[iedge + 1]

-----------------------------------------------------------------------------
(* calcEdgeConnectivity: node connectivity, lines 774-801 *)

\* variant: every corner is merged with the first listed node
NodeHit_always(node, listed, node_tol) == TRUE

\* the test of line 789
NodeHit(node, listed, node_tol) == e_dist_lt(node, listed, node_tol)

\* scan state before the first corner
NodeScanInit == [node_list |-> <<>>, node_link |-> <<>>]

\* one corner (isurf, inode) of the double loop
NodeScanStep(st, isurf, inode, node_tol) ==
    LET st0 == IF inode = 0
               THEN [st EXCEPT !.node_link = Append(@, <<>>)]
               ELSE st
        node == getOrigValueCorner(surfs[isurf + 1], inode)
        hits == {i \in 0..(Len(st0.node_list) - 1) :
                    NodeHit(node, st0.node_list[i + 1], node_tol)}
    IN  IF Len(st0.node_list) = 0
        THEN [node_list |-> Append(st0.node_list, node),
              node_link |-> [st0.node_link EXCEPT ![isurf + 1] = Append(@, inode)]]
        ELSE IF hits # {}
        THEN [st0 EXCEPT !.node_link[isurf + 1] = Append(@, Min(hits))]
        ELSE [node_list |-> Append(st0.node_list, node),
              node_link |-> [st0.node_link EXCEPT ![isurf + 1] =
                                Append(@, (Len(st0.node_list) - 1) + 1)]]

RECURSIVE NodeScan(_, _, _)
NodeScan(k, st, node_tol) ==
    IF k = 4 * nSurf THEN st
    ELSE NodeScan(k + 1, NodeScanStep(st, k \div 4, k % 4, node_tol), node_tol)

-----------------------------------------------------------------------------
(* calcEdgeConnectivity: edge connectivity, lines 805-845 *)

EdgeScanInit ==
    [edge_list |-> <<>>,
     edge_link |-> [s \in 1..nSurf |-> <<-1, -1, -1, -1>>],
     edge_dir  |-> [s \in 1..nSurf |-> <<0, 0, 0, 0>>]]

\* variant: the midpoints are not compared
EdgeMatch_endsOnly(n1, n2, mid_point, e, edge_tol) ==
    IF <<n1, n2>> = <<e.n1, e.n2>> /\ n1 # n2 THEN 1
    ELSE IF <<n2, n1>> = <<e.n1, e.n2>> /\ n1 # n2 THEN -1
    ELSE 0

\* the test made on existing edge e in the inner loop (lines 823-835):
\* 1 = linked forward, -1 = linked reversed, 0 = not linked
EdgeMatch(n1, n2, mid_point, e, edge_tol) ==
    IF <<n1, n2>> = <<e.n1, e.n2>> /\ n1 # n2
    THEN (IF e_dist_lt(mid_point, e.mid, edge_tol) THEN 1 ELSE 0)
    ELSE IF <<n2, n1>> = <<e.n1, e.n2>> /\ n1 # n2
    THEN (IF e_dist_lt(mid_point, e.mid, edge_tol) THEN -1 ELSE 0)
    ELSE 0

\* one edge slot (isurf, iedge) of the double loop; the inner loop has no
\* break, so the last matching edge is the one recorded
EdgeScanStep(st, isurf, iedge, nlink, edge_tol) ==
    LET nn == nodesFromEdge(iedge)
        n1 == nlink[isurf + 1][nn[1] + 1]
        n2 == nlink[isurf + 1][nn[2] + 1]
        mid_point == getOrigValuesEdge(surfs[isurf + 1], iedge)
        new == [n1 |-> n1, n2 |-> n2, mid |-> mid_point, dg |-> -1, Nctl |-> 0]
        hits == {i \in 0..(Len(st.edge_list) - 1) :
                    EdgeMatch(n1, n2, mid_point, st.edge_list[i + 1], edge_tol) # 0}
    IN  IF Len(st.edge_list) = 0
        THEN [edge_list |-> Append(st.edge_list, new),
              edge_link |-> [st.edge_link EXCEPT ![isurf + 1][iedge + 1] = 0],
              edge_dir  |-> [st.edge_dir  EXCEPT ![isurf + 1][iedge + 1] = 1]]
        ELSE IF hits # {}
        THEN LET i == Max(hits) IN
             [edge_list |-> st.edge_list,
              edge_link |-> [st.edge_link EXCEPT ![isurf + 1][iedge + 1] = i],
              edge_dir  |-> [st.edge_dir  EXCEPT ![isurf + 1][iedge + 1] =
                                EdgeMatch(n1, n2, mid_point, st.edge_list[i + 1], edge_tol)]]
        ELSE [edge_list |-> Append(st.edge_list, new),
              edge_link |-> [st.edge_link EXCEPT ![isurf + 1][iedge + 1] =
                                (Len(st.edge_list) - 1) + 1],
              edge_dir  |-> [st.edge_dir  EXCEPT ![isurf + 1][iedge + 1] = 1]]

RECURSIVE EdgeScan(_, _, _, _)
EdgeScan(k, st, nlink, edge_tol) ==
    IF k = 4 * nSurf THEN st
    ELSE EdgeScan(k + 1, EdgeScanStep(st, k \div 4, k % 4, nlink, edge_tol),
                  nlink, edge_tol)

-----------------------------------------------------------------------------
(* Design groups: addDGEdge (lines 879-903) and its driver (lines 848-855) *)

\* addDGEdge(i, edge_list, edge_link), resumed at position k of its double
\* loop over (isurf, iedge); returns the edge list it leaves
RECURSIVE addDGEdge(_, _, _, _)
addDGEdge(i, k, el, elink) ==
    IF k = 4 * nSurf THEN el
    ELSE
    LET isurf == k \div 4
        iedge == k % 4
    IN  IF elink[isurf + 1][iedge + 1] # i
        THEN addDGEdge(i, k + 1, el, elink)
        ELSE
        LET el1 == [el EXCEPT ![i + 1].Nctl =
                        IF iedge \in {0, 1} THEN surfs[isurf + 1].Nctlu
                                            ELSE surfs[isurf + 1].Nctlv]
            oppositeEdge == elink[isurf + 1][flipEdge(iedge) + 1]
        IN  IF el1[oppositeEdge + 1].dg = -1
            THEN LET el2 == [el1 EXCEPT ![oppositeEdge + 1].dg = el1[i + 1].dg]
                     el3 == IF el2[oppositeEdge + 1].n1 # el2[oppositeEdge + 1].n2
                            THEN addDGEdge(oppositeEdge, 0, el2, elink)
                            ELSE el2
                 IN  addDGEdge(i, k + 1, el3, elink)
            ELSE addDGEdge(i, k + 1, el1, elink)

\* variant: the counter carries on from the design groups already stored
dg_counter_carried ==
    Max({-1} \cup {edge_list[x].dg : x \in 1..Len(edge_list)})

\* dg_counter before the loop over the edges (line 848)
dg_counter_init == -1

RECURSIVE DesignGroups(_, _, _, _)
DesignGroups(i, dg_counter, el, elink) ==
    IF i = Len(el) THEN el
    ELSE IF el[i + 1].dg = -1
    THEN LET el1 == [el EXCEPT ![i + 1].dg = dg_counter + 1]
         IN  DesignGroups(i + 1, dg_counter + 1, addDGEdge(i, 0, el1, elink), elink)
    ELSE DesignGroups(i + 1, dg_counter, el, elink)

-----------------------------------------------------------------------------
(* The edge objects saved on self (lines 861-872) *)

\* class edge, lines 2988-2998
edge(n1, n2, cont, degen, intersect, dg, Nctl) ==
    [n1 |-> n1, n2 |-> n2, cont |-> cont, degen |-> degen,
     intersect |-> intersect, dg |-> dg, Nctl |-> Nctl]

\* the degenerate test of line 864
IsDegenerate(e, nlist, node_tol) ==
    e.n1 = e.n2 /\ e_dist_lt(e.mid, nlist[e.n1 + 1], node_tol)

MakeEdgeObjects(el, nlist, node_tol) ==
    [i \in 1..Len(el) |->
        IF IsDegenerate(el[i], nlist, node_tol)
        THEN edge(el[i].n1, el[i].n2, 0, 1, 0, el[i].dg, el[i].Nctl)
        ELSE edge(el[i].n1, el[i].n2, 0, 0, 0, el[i].dg, el[i].Nctl)]

\* the topology calcEdgeConnectivity stores before it calls
\* _setEdgeConnectivity
Stitch(node_tol, edge_tol) ==
    LET ns == NodeScan(0, NodeScanInit, node_tol)
        es == EdgeScan(0, EdgeScanInit, ns.node_link, edge_tol)
        el == DesignGroups(0, dg_counter_init, es.edge_list, es.edge_link)
    IN  [node_list |-> ns.node_list,
         node_link |-> ns.node_link,
         edge_list |-> MakeEdgeObjects(el, ns.node_list, node_tol),
         edge_link |-> es.edge_link,
         edge_dir  |-> es.edge_dir]

-----------------------------------------------------------------------------
(* calcGlobalNumbering, lines 937-1053 *)

\* variant: the corners are counted without unique()
CountNodes_flat(nlink) == 4 * Len(nlink)

\* nNode = len(unique(node_link.flatten())), line 958
CountNodes(nlink) ==
    Cardinality({nlink[s][n] : s \in 1..Len(nlink), n \in 1..4})

\* variant: no degenerate branch, every edge gets fresh ids
EdgeIds_fresh(e, counter, n) ==
    [ids |-> [jj \in 1..n |-> counter + (jj - 1)], counter |-> counter + n]

\* the ids given to one edge when it is first met (lines 985-997): the
\* node's id repeated for a degenerate edge, fresh ids otherwise
EdgeIds(e, counter, n) ==
    IF e.degen = 1
    THEN [ids |-> [jj \in 1..n |-> e.n1], counter |-> counter]
    ELSE [ids |-> [jj \in 1..n |-> counter + (jj - 1)], counter |-> counter + n]

\* one (ii, iedge) of the loop of lines 978-1000 over st = (edge_index,
\* counter, err)
EdgeIndexStep(st, ii, iedge, sizes, surface_list, elist, elink, nNode) ==
    LET cur_size == <<sizes[ii + 1][1], sizes[ii + 1][1],
                      sizes[ii + 1][2], sizes[ii + 1][2]>>
        isurf == surface_list[ii + 1]
    IN  IF st.err # "ok" THEN st
        ELSE IF isurf + 1 > Len(elink) THEN [st EXCEPT !.err = "IndexError"]
        ELSE
        LET e == elink[isurf + 1][iedge + 1]
            n == IF cur_size[iedge + 1] - 2 > 0 THEN cur_size[iedge + 1] - 2 ELSE 0
        IN  IF e + 1 > Len(st.edge_index) THEN [st EXCEPT !.err = "IndexError"]
            ELSE IF st.edge_index[e + 1] # <<>> THEN st
            ELSE IF elist[e + 1].degen = 1 /\ elist[e + 1].n1 >= nNode
            THEN [st EXCEPT !.err = "IndexError"]
            ELSE [st EXCEPT !.edge_index[e + 1] =
                                EdgeIds(elist[e + 1], st.counter, n).ids,
                            !.counter = EdgeIds(elist[e + 1], st.counter, n).counter]

RECURSIVE EdgeIndexLoop(_, _, _, _, _, _, _)
EdgeIndexLoop(k, st, sizes, surface_list, elist, elink, nNode) ==
    IF k = 4 * Len(surface_list) THEN st
    ELSE EdgeIndexLoop(k + 1,
             EdgeIndexStep(st, k \div 4, k % 4, sizes, surface_list, elist,
                           elink, nNode),
             sizes, surface_list, elist, elink, nNode)

\* variant: the recorded direction is ignored
EdgePos_forward(dir, along, L) == along - 1

\* position along the edge's id list used for grid index `along` of an edge
\* of L control points with recorded direction dir (lines 1028-1037)
EdgePos(dir, along, L) ==
    IF dir = -1 THEN L - along - 2 ELSE along - 1

\* the grid locations (ii, i, j) in the order of the sweep of lines 1012-1051
RECURSIVE CellsOf(_, _)
CellsOf(ii, sizes) ==
    IF ii = Len(sizes) THEN <<>>
    ELSE LET N == sizes[ii + 1][1]
             M == sizes[ii + 1][2]
         IN  [c \in 1..(N * M) |-> <<ii, (c - 1) \div M, (c - 1) % M>>]
             \o CellsOf(ii + 1, sizes)

\* one grid location of the sweep over st = (counter, g_index, l_index, err)
SweepStep(st, cell, sizes, surface_list, nlink, elink, edir, edge_index, nNode) ==
    LET ii == cell[1]
        i == cell[2]
        j == cell[3]
        isurf == surface_list[ii + 1]
        N == sizes[ii + 1][1]
        M == sizes[ii + 1][2]
        pos == indexPosition(i, j, N, M)
        fail == [st EXCEPT !.err = "IndexError"]
    IN  IF st.err # "ok" THEN st
        ELSE IF pos.type = 0
        THEN [st EXCEPT !.l_index[ii + 1][<<i, j>>] = st.counter,
                        !.g_index = Append(@, << <<isurf, i, j>> >>),
                        !.counter = @ + 1]
        ELSE IF pos.type = 1
        THEN IF ii + 1 > Len(edir) \/ ii + 1 > Len(elink) THEN fail
             ELSE
             IF elink[ii + 1][pos.edge + 1] + 1 > Len(edge_index) THEN fail
             ELSE
             LET row == edge_index[elink[ii + 1][pos.edge + 1] + 1]
                 p == IF pos.edge \in {0, 1}
                      THEN EdgePos(edir[ii + 1][pos.edge + 1], i, N)
                      ELSE EdgePos(edir[ii + 1][pos.edge + 1], j, M)
             IN  IF p + 1 > Len(row) THEN fail
                 ELSE LET cur_index == row[p + 1] IN
                      IF cur_index + 1 > Len(st.g_index) THEN fail ELSE
                      [st EXCEPT !.l_index[ii + 1][<<i, j>>] = cur_index,
                                 !.g_index[cur_index + 1] = Append(@, <<isurf, i, j>>)]
        ELSE IF isurf + 1 > Len(nlink) THEN fail
             ELSE
             LET cur_node == nlink[isurf + 1][pos.node + 1]
             IN  IF cur_node >= nNode \/ cur_node + 1 > Len(st.g_index) THEN fail
                 ELSE [st EXCEPT !.l_index[ii + 1][<<i, j>>] = cur_node,
                                 !.g_index[cur_node + 1] = Append(@, <<isurf, i, j>>)]

RECURSIVE Sweep(_, _, _, _, _, _, _, _, _)
Sweep(cells, st, sizes, surface_list, nlink, elink, edir, edge_index, nNode) ==
    IF cells = <<>> THEN st
    ELSE Sweep(Tail(cells),
               SweepStep(st, Head(cells), sizes, surface_list, nlink, elink,
                         edir, edge_index, nNode),
               sizes, surface_list, nlink, elink, edir, edge_index, nNode)

\* variant: the edge ids start one past the node ids
FirstEdgeId_skip(nNode) == nNode + 1

\* counter = len(node_index), line 970
FirstEdgeId(nNode) == nNode

\* returns (counter, g_index, l_index), or err = "IndexError" when a list
\* index is out of range
calcGlobalNumbering(sizes, surface_list, nlink, elist, elink, edir) ==
    LET nNode == CountNodes(nlink)
        ei == EdgeIndexLoop(0,
                  [edge_index |-> [e \in 1..Len(elist) |-> <<>>],
                   counter |-> FirstEdgeId(nNode), err |-> "ok"],
                  sizes, surface_list, elist, elink, nNode)
        st0 == [counter |-> ei.counter,
                g_index |-> [g \in 1..ei.counter |-> <<>>],
                l_index |-> [ii \in 1..Len(surface_list) |->
                               [p \in (0..(sizes[ii][1] - 1)) \X (0..(sizes[ii][2] - 1)) |-> -1]],
                err |-> ei.err]
    IN  IF ei.err # "ok"
        THEN st0
        ELSE Sweep(CellsOf(0, sizes), st0, sizes, surface_list, nlink, elink,
                   edir, ei.edge_index, nNode)

\* a real number x as a complex one, x + 0j, and back (astype('D'),
\* astype('d')); a complex number is the pair <<re, im>>, im counted in
\* units of the complex step h
Cx(x) == <<x, 0>>
Re(z) == z[1]
CPt(p) == <<Cx(p[1]), Cx(p[2]), Cx(p[3])>>
RealPt(zp) == <<Re(zp[1]), Re(zp[2]), Re(zp[3])>>
CAdd(a, b) == <<a[1] + b[1], a[2] + b[2]>>
CSub(a, b) == <<a[1] - b[1], a[2] - b[2]>>
VAdd(p, q) == <<CAdd(p[1], q[1]), CAdd(p[2], q[2]), CAdd(p[3], q[3])>>
VSub(p, q) == <<CSub(p[1], q[1]), CSub(p[2], q[2]), CSub(p[3], q[3])>>

\* self.coef as the loop of lines 916-923 leaves it: one entry per global
\* id, taken from the first location listed for it; the loop stops at the
\* first id with no location
FillCoefOn(gi, sc) ==
    LET bad == {ii \in 1..Len(gi) : gi[ii] = <<>>}
        n == IF bad = {} THEN Len(gi) ELSE Min(bad) - 1
    IN  [ii \in 1..n |->
            CPt(sc[gi[ii][1][1] + 1][<<gi[ii][1][2], gi[ii][1][3]>>])]
FillCoef(gi) == FillCoefOn(gi, surf_coef)

\* sizes as _setEdgeConnectivity collects them (lines 909-912)
SurfSizes == [s \in 1..nSurf |-> <<surfs[s].Nctlu, surfs[s].Nctlv>>]

\* _setEdgeConnectivity (lines 905-935) on the topology just stored:
\* the index it assigns (set |-> TRUE) and the exception it ends with
\* sizes and sc are the sizes and control points of the patches at the
\* time of the call
SetEdgeConnectivityOn(sizes, sc, nlink, elist, elink, edir) ==
    LET r == calcGlobalNumbering(sizes, [s \in 1..nSurf |-> s - 1],
                                 nlink, elist, elink, edir)
    IN  IF r.err # "ok"
        THEN [set |-> FALSE, err |-> r.err, Ncoef |-> Ncoef,
              g_index |-> g_index, l_index |-> l_index, coef |-> coef]
        ELSE [set |-> TRUE,
              \* self.coef is filled from g_index[ii][0] (lines 918-923)
              err |-> IF \E ii \in 1..Len(r.g_index) : r.g_index[ii] = <<>>
                      THEN "IndexError" ELSE "ok",
              Ncoef |-> r.counter, g_index |-> r.g_index, l_index |-> r.l_index,
              coef |-> FillCoefOn(r.g_index, sc)]
SetEdgeConnectivity(nlink, elist, elink, edir) ==
    SetEdgeConnectivityOn(SurfSizes, surf_coef, nlink, elist, elink, edir)

-----------------------------------------------------------------------------
(* The patches a model is built from *)

Pt(x, y) == <<x, y>>
MidPt(a, b) == <<(a[1] + b[1]) \div 2, (a[2] + b[2]) \div 2>>

\* a patch with straight edges
Straight(c0, c1, c2, c3) ==
    [corner |-> <<c0, c1, c2, c3>>,
     mid |-> <<MidPt(c0, c1), MidPt(c2, c3), MidPt(c0, c2), MidPt(c1, c3)>>]

\* the same surface with its parametrisation reversed in u, reversed in v,
\* or with u and v exchanged
FlipU(p) == [corner |-> <<p.corner[2], p.corner[1], p.corner[4], p.corner[3]>>,
             mid |-> <<p.mid[1], p.mid[2], p.mid[4], p.mid[3]>>]
FlipV(p) == [corner |-> <<p.corner[3], p.corner[4], p.corner[1], p.corner[2]>>,
             mid |-> <<p.mid[2], p.mid[1], p.mid[3], p.mid[4]>>]
Transpose(p) == [corner |-> <<p.corner[1], p.corner[3], p.corner[2], p.corner[4]>>,
                 mid |-> <<p.mid[3], p.mid[4], p.mid[1], p.mid[2]>>]
Orientations == {"id", "flipU", "flipV", "transpose", "rot"}
Orient(o, p) ==
    CASE o = "id" -> p
      [] o = "flipU" -> FlipU(p)
      [] o = "flipV" -> FlipV(p)
      [] o = "transpose" -> Transpose(p)
      [] o = "rot" -> FlipU(Transpose(p))

\* first patch: a square, a patch whose edge 1 is collapsed onto one point,
\* one whose edge 1 is collapsed up to a unit of slop, and one whose edge 0
\* is a closed loop
A_quad == Straight(Pt(0, 0), Pt(4, 0), Pt(0, 4), Pt(4, 4))
A_tip == Straight(Pt(0, 0), Pt(4, 0), Pt(4, 4), Pt(4, 4))
A_sloppy == Straight(Pt(0, 0), Pt(4, 0), Pt(4, 4), Pt(3, 4))
A_loop == [corner |-> <<Pt(0, 0), Pt(0, 0), Pt(0, 4), Pt(4, 4)>>,
           mid |-> <<Pt(4, 0), Pt(2, 4), Pt(0, 2), Pt(2, 2)>>]

\* second patch: the square to the right of the first, the same shifted by
\* one unit, a square far away, the right square with a bulged left side,
\* and the right square with its edge 1 collapsed onto the point (4,4)
B_right == Straight(Pt(4, 0), Pt(8, 0), Pt(4, 4), Pt(8, 4))
B_near == Straight(Pt(5, 0), Pt(9, 0), Pt(5, 4), Pt(9, 4))
B_far == Straight(Pt(12, 0), Pt(16, 0), Pt(12, 4), Pt(16, 4))
B_arc == [B_right EXCEPT !.mid[3] = Pt(6, 2)]
B_tip == Straight(Pt(4, 0), Pt(8, 0), Pt(4, 4), Pt(4, 4))

\* a third patch, the square above B_right
C_top == Straight(Pt(4, 4), Pt(8, 4), Pt(4, 8), Pt(8, 8))

Geometries ==
    {<<A_quad, Orient(o, B_right)>> : o \in Orientations}
    \cup {<<A_tip, Orient(o, B_right)>> : o \in {"id", "flipV"}}
    \cup {<<A_quad, B_near>>, <<A_quad, B_far>>, <<A_quad, B_arc>>,
          <<A_quad, B_tip>>, <<A_quad, A_quad>>, <<A_tip, A_tip>>,
          <<A_tip, B_tip>>, <<A_sloppy, B_near>>, <<A_loop, A_loop>>,
          <<A_loop, B_far>>, <<A_quad>>, <<A_tip>>}

Sizes == (2..MaxNctl) \X (2..MaxNctl)

\* the grid sizes of the patches of geometry g: any size for the first
\* patch; the second has the same size, the same with u and v exchanged, or
\* three by three
SizeChoices(g) ==
    IF Len(g) = 1
    THEN {<<a>> : a \in Sizes}
    ELSE {<<a, b>> : a \in Sizes, b \in Sizes} \cap
         {sz \in Seq(Sizes) : Len(sz) = 2 /\ sz[2] \in {sz[1], <<sz[1][2], sz[1][1]>>, <<3, 3>>}}

\* the tolerances (node_tol, edge_tol) a caller passes
TolPairs == {<<1, 1>>, <<2, 2>>, <<2, 1>>}

WithSize(p, sz) == [corner |-> p.corner, mid |-> p.mid, Nctlu |-> sz[1], Nctlv |-> sz[2]]

\* the control net of a patch when it is loaded: the corner control points
\* are the corners, the others lie between them (bilinear, rounded to the
\* integer grid), all in the plane z = 0
Lerp(a, b, k, n) == a + ((b - a) * k) \div n
ControlNet(p) ==
    [ij \in (0..(p.Nctlu - 1)) \X (0..(p.Nctlv - 1)) |->
        LET lo == [d \in 1..2 |-> Lerp(p.corner[1][d], p.corner[2][d], ij[1], p.Nctlu - 1)]
            hi == [d \in 1..2 |-> Lerp(p.corner[3][d], p.corner[4][d], ij[1], p.Nctlu - 1)]
        IN  <<Lerp(lo[1], hi[1], ij[2], p.Nctlv - 1),
              Lerp(lo[2], hi[2], ij[2], p.Nctlv - 1), 0>>]

-----------------------------------------------------------------------------
(* State after construction (__init__, lines 160-195): the patches are     *)
(* loaded, nothing is stitched, no design variable is registered           *)

\* self.dCoefdx = None
NoJacobian == [Ndv |-> -1, col |-> <<>>]
NoSrc == [op |-> "none", node_tol |-> 0, edge_tol |-> 0, indexed |-> FALSE,
          rerun |-> FALSE]
NoSnap == [node_link |-> <<>>, edge_list |-> <<>>, edge_link |-> <<>>,
           edge_dir |-> <<>>, Ncoef |-> -1, g_index |-> <<>>, l_index |-> <<>>]

\* the order a patch is created with: 4 (ku=4, kv=4, line 757), or the
\* number of control points when there are fewer
DefaultOrder(p) == [ku |-> Min({4, p.Nctlu}), kv |-> Min({4, p.Nctlv})]

\* _initJacobian has not been called
NoLink == [dv_link |-> <<>>, nCols |-> -1]

\* getReducedSetConnectivity has not been called
NoSub == [list |-> <<>>, node_link |-> <<>>, edge_list |-> <<>>,
          edge_link |-> <<>>, edge_dir |-> <<>>, counter |-> -1,
          g_index |-> <<>>, l_index |-> <<>>, err |-> "ok"]

\* getSizes has not been called
NoSizes == [NdvGlobal |-> -1, NdvNormal |-> -1, NdvLocal |-> -1, Nctl |-> -1,
            err |-> "ok"]

\* the design groups are not being assigned
NoRun == [pc |-> "idle", i |-> 0, dg_counter |-> -1, edge_list |-> <<>>,
          edge_link |-> <<>>, stack |-> <<>>]

\* no fitSurfaces call is running
NoFit == [pc |-> "idle", iter |-> 0, solves |-> 0, rms |-> <<>>]

\* everything but the patches
Constructed ==
    /\ node_link = <<>> /\ edge_list = <<>> /\ edge_link = <<>> /\ edge_dir = <<>>
    /\ Ncoef = -1 /\ g_index = <<>> /\ l_index = <<>>
    /\ file = <<>>
    /\ DV_listNormal = <<>> /\ DV_listLocal = <<>>
    /\ DV_namesNormal = <<>> /\ DV_namesLocal = <<>>
    /\ src = NoSrc /\ err = "ok" /\ written = NoSnap
    /\ calls = <<>>
    /\ surf_coef = [s \in 1..nSurf |-> ControlNet(surfs[s])]
    /\ coef = <<>>
    /\ ref_axis = <<>> /\ ref_axis_con = <<>>
    /\ DV_listGlobal = <<>> /\ DV_namesGlobal = <<>>
    /\ dCoefdx = NoJacobian
    /\ steps = <<>>
    /\ order = [s \in 1..nSurf |-> DefaultOrder(surfs[s])]
    /\ fit = NoFit
    /\ jac = NoLink
    /\ sub = NoSub
    /\ lift = <<>>
    /\ ndv = NoSizes
    /\ dgrun = NoRun
    /\ updates = 0

Init ==
    /\ \E g \in Geometries : \E sz \in SizeChoices(g) :
          surfs = [s \in 1..Len(g) |-> WithSize(g[s], sz[s])]
    /\ Constructed

-----------------------------------------------------------------------------
(* calcEdgeConnectivity(node_tol, edge_tol), lines 767-877 *)

CalcEdgeConnectivity(node_tol, edge_tol) ==
    \E t \in {Stitch(node_tol, edge_tol)} :
    \E r \in {SetEdgeConnectivity(t.node_link, t.edge_list, t.edge_link, t.edge_dir)} :
        /\ node_link' = t.node_link
        /\ edge_list' = t.edge_list
        /\ edge_link' = t.edge_link
        /\ edge_dir' = t.edge_dir
        /\ Ncoef' = r.Ncoef
        /\ g_index' = r.g_index
        /\ l_index' = r.l_index
        /\ err' = r.err
        /\ src' = [op |-> "calc", node_tol |-> node_tol, edge_tol |-> edge_tol,
                   indexed |-> r.set,
                   rerun |-> (src.op = "calc" /\ src.node_tol = node_tol
                              /\ src.edge_tol = edge_tol)]
        /\ coef' = r.coef
        /\ UNCHANGED <<surfs, fitVars, file, dvVars, written, calls, surf_coef, axisVars>>

Calc == \E tp \in TolPairs : CalcEdgeConnectivity(tp[1], tp[2])

-----------------------------------------------------------------------------
(* The connectivity file.  A line is the list of the fields that           *)
(* string.split(line,'|') returns; a field is a list of characters.        *)

Digits == <<"0", "1", "2", "3", "4", "5", "6", "7", "8", "9">>
Pad(k) == [x \in 1..k |-> " "]

RECURSIVE NatStr(_)
NatStr(n) == IF n < 10 THEN <<Digits[n + 1]>>
             ELSE NatStr(n \div 10) \o <<Digits[(n % 10) + 1]>>

\* '%3d' % n: sign and digits, padded on the left to three characters
Fmt3d(n) ==
    LET t == IF n < 0 THEN <<"-">> \o NatStr(0 - n) ELSE NatStr(n)
    IN  IF Len(t) >= 3 THEN t ELSE Pad(3 - Len(t)) \o t

\* int(text): blanks and the newline around the number are ignored
RECURSIVE DigitsVal(_)
DigitsVal(t) ==
    IF t = <<>> THEN 0
    ELSE 10 * DigitsVal(SubSeq(t, 1, Len(t) - 1))
         + (CHOOSE d \in 0..9 : Digits[d + 1] = t[Len(t)])
ParseInt(text) ==
    LET t == SelectSeq(text, LAMBDA c : c \notin {" ", "\n"})
    IN  IF t # <<>> /\ t[1] = "-" THEN 0 - DigitsVal(Tail(t)) ELSE DigitsVal(t)

\* edge.write_info(i, handle), lines 3000-3002
write_info(e, i) ==
    << Pad(2) \o Fmt3d(i) \o Pad(10),
       Pad(2) \o Fmt3d(e.n1) \o Pad(1),
       Pad(2) \o Fmt3d(e.n2) \o Pad(1),
       Pad(2) \o Fmt3d(e.cont) \o Pad(1),
       Pad(2) \o Fmt3d(e.degen) \o Pad(1),
       Pad(2) \o Fmt3d(e.intersect) \o Pad(1),
       Pad(2) \o Fmt3d(e.dg) \o Pad(1),
       Pad(2) \o Fmt3d(e.Nctl) \o Pad(1),
       <<"\n">> >>

\* the line written for surface i (lines 1149-1152)
SurfLine(i, nlink, elink, edir) ==
    << Pad(4) \o Fmt3d(i) \o Pad(8) >>
    \o [j \in 1..4 |-> Pad(2) \o Fmt3d(nlink[i + 1][j]) \o Pad(1)]
    \o [j \in 1..4 |-> Pad(2) \o Fmt3d(elink[i + 1][j]) \o Pad(1)]
    \o [j \in 1..3 |-> Pad(2) \o Fmt3d(edir[i + 1][j]) \o Pad(1)]
    \o << Pad(2) \o Fmt3d(edir[i + 1][4]) \o <<" ", "\n">> >>

EdgeHeader == << <<"Edge Number">> >>
SurfHeader == << <<"Surface Number">> >>

\* the lines writeEdgeConnectivity writes (lines 1142-1153)
FileText(nlink, elist, elink, edir) ==
    << << Fmt3d(Len(elist)) \o <<"\n">> >> >>
    \o << EdgeHeader >>
    \o [i \in 1..Len(elist) |-> write_info(elist[i], i - 1)]
    \o << SurfHeader >>
    \o [i \in 1..Len(nlink) |-> SurfLine(i - 1, nlink, elink, edir)]

\* the edge object readEdgeConnectivity builds from one split line
\* (lines 1168-1170)
ReadEdge(aux) ==
    edge(ParseInt(aux[1 + 1]), ParseInt(aux[2 + 1]), ParseInt(aux[3 + 1]),
         ParseInt(aux[4 + 1]), ParseInt(aux[5 + 1]), ParseInt(aux[6 + 1]),
         ParseInt(aux[7 + 1]))

\* the link rows readEdgeConnectivity fills from one split line
\* (lines 1179-1185)
ReadNodeRow(aux) == [j \in 1..4 |-> ParseInt(aux[(j - 1) + 1 + 1])]
ReadEdgeRow(aux) == [j \in 1..4 |-> ParseInt(aux[(j - 1) + 1 + 4 + 1])]
\* variant: the directions are read from the edge-link columns
ReadDirRow_shifted(aux) == [j \in 1..4 |-> ParseInt(aux[(j - 1) + 1 + 4 + 1])]
ReadDirRow(aux) == [j \in 1..4 |-> ParseInt(aux[(j - 1) + 1 + 8 + 1])]

\* the topology readEdgeConnectivity stores from the lines of the file
ReadText(lines) ==
    LET nEdge == ParseInt(lines[1][1])
    IN  [edge_list |-> [i \in 1..nEdge |-> ReadEdge(lines[2 + i])],
         node_link |-> [i \in 1..nSurf |-> ReadNodeRow(lines[3 + nEdge + i])],
         edge_link |-> [i \in 1..nSurf |-> ReadEdgeRow(lines[3 + nEdge + i])],
         edge_dir  |-> [i \in 1..nSurf |-> ReadDirRow(lines[3 + nEdge + i])]]

Snapshot ==
    [node_link |-> node_link, edge_list |-> edge_list, edge_link |-> edge_link,
     edge_dir |-> edge_dir, Ncoef |-> Ncoef, g_index |-> g_index,
     l_index |-> l_index]

\* writeEdgeConnectivity(file_name), lines 1135-1156; called on a model that
\* has been stitched (self.node_link does not exist before)
WriteEdgeConnectivity ==
    /\ src.op # "none"
    /\ file' = FileText(node_link, edge_list, edge_link, edge_dir)
    /\ written' = Snapshot
    /\ err' = "ok"
    /\ UNCHANGED <<surfs, fitVars, topoVars, indexVars, dvVars, src, calls, surf_coef,
                   coef, axisVars>>

\* readEdgeConnectivity(file_name), lines 1158-1192; called on a file that
\* exists
ReadEdgeConnectivity ==
    /\ file # <<>>
    /\ \E t \in {ReadText(file)} :
       \E r \in {SetEdgeConnectivity(t.node_link, t.edge_list, t.edge_link, t.edge_dir)} :
          /\ node_link' = t.node_link
          /\ edge_list' = t.edge_list
          /\ edge_link' = t.edge_link
          /\ edge_dir' = t.edge_dir
          /\ Ncoef' = r.Ncoef
          /\ g_index' = r.g_index
          /\ l_index' = r.l_index
          /\ err' = r.err
          /\ coef' = r.coef
          /\ src' = [op |-> "read", node_tol |-> 0, edge_tol |-> 0,
                     indexed |-> r.set, rerun |-> FALSE]
    /\ UNCHANGED <<surfs, fitVars, file, dvVars, written, calls, surf_coef, axisVars>>

Next == Calc \/ WriteEdgeConnectivity \/ ReadEdgeConnectivity

Spec == Init /\ [][Next]_vars

-----------------------------------------------------------------------------
(* Normal and Local design-variable groups *)

\* list.index(v): 0-based position of the first v in list
IndexOf(list, v) == Min({k \in 1..Len(list) : list[k] = v}) - 1
\* del list[index]
DelAt(list, index) ==
    [k \in 1..(Len(list) - 1) |-> IF k < index + 1 THEN list[k] ELSE list[k + 1]]

\* one iteration of removeCoef's loop (lines 3221-3228, 3295-3302): the
\* first occurrence of the id leaves coef_list and nVal is decremented;
\* delete() returns a copy, so local_coef_index and value keep their rows
RemoveOne(dv, id) ==
    IF id \in Range(dv.coef_list)
    THEN [dv EXCEPT !.coef_list = DelAt(@, IndexOf(dv.coef_list, id)),
                    !.nVal = @ - 1]
    ELSE dv

\* geoDVNormal.removeCoef and geoDVLocal.removeCoef (same body)
RECURSIVE removeCoef(_, _)
removeCoef(dv, rm_list) ==
    IF rm_list = <<>> THEN dv
    ELSE removeCoef(RemoveOne(dv, Head(rm_list)), Tail(rm_list))

\* geoDVLocal.__init__, lines 3262-3280
geoDVLocal(dv_name, surface_id, coef_list, global_coef) ==
    [name |-> dv_name,
     nVal |-> Len(coef_list),
     nValue |-> 3 * Len(coef_list),
     value |-> [k \in 1..(3 * Len(coef_list)) |-> Cx(0)],
     surface_id |-> surface_id,
     coef_list |-> coef_list,
     local_coef_index |-> [icoef \in 1..Len(coef_list) |->
         <<global_coef[coef_list[icoef] + 1][1][2],
           global_coef[coef_list[icoef] + 1][1][3]>>]]

\* the control points of surface surf, point_select = None
\* (lines 2271-2277, 2337-2343)
SurfaceCoefList(surf) ==
    LET N == surfs[surf + 1].Nctlu
        M == surfs[surf + 1].Nctlv
    IN  [c \in 1..(N * M) |-> l_index[surf + 1][<<(c - 1) \div M, (c - 1) % M>>]]

\* overwrite branch (lines 2292-2297, 2358-2363)
EvictAll(dv_list, coef_list) ==
    [idv \in 1..Len(dv_list) |-> removeCoef(dv_list[idv], coef_list)]

\* how many groups of the two lists hold the id
Holders(id) ==
    Cardinality({idv \in 1..Len(DV_listNormal) : id \in Range(DV_listNormal[idv].coef_list)})
    + Cardinality({idv \in 1..Len(DV_listLocal) : id \in Range(DV_listLocal[idv].coef_list)})

\* the no-overwrite branch (lines 2302-2316, 2368-2382) from position i of
\* coef_list on: new_list.remove(coef_list[i]) is called once per group
\* that holds the id and raises ValueError when the id is no longer there
RECURSIVE FilterTaken(_, _, _)
FilterTaken(i, coef_list, new_list) ==
    IF i = Len(coef_list) THEN [err |-> "ok", list |-> new_list]
    ELSE LET id == coef_list[i + 1]
             h == Holders(id)
             left == Cardinality({k \in 1..Len(new_list) : new_list[k] = id})
         IN  IF h > left THEN [err |-> "ValueError", list |-> new_list]
             ELSE FilterTaken(i + 1, coef_list,
                      IF h = 0 THEN new_list
                      ELSE SelectSeq([k \in 1..Len(new_list) |->
                              IF new_list[k] = id /\
                                 Cardinality({m \in 1..k : new_list[m] = id}) <= h
                              THEN 0 - 1 ELSE new_list[k]],
                            LAMBDA v : v # 0 - 1))

SetName(names, dv_name, index) ==
    [n \in (DOMAIN names) \cup {dv_name} |-> IF n = dv_name THEN index ELSE names[n]]

Call(kind, dv_name, surf, overwrite) ==
    [kind |-> kind, name |-> dv_name, surf |-> surf, overwrite |-> overwrite]

\* addGeoDVLocal(dv_name, lower, upper, surf, overwrite), lines 2325-2389
addGeoDVLocal(dv_name, surf, overwrite) ==
    /\ src.indexed
    /\ Len(calls) < MaxDV
    /\ calls' = Append(calls, Call("Local", dv_name, surf, overwrite))
    /\ \E coef_list \in {SurfaceCoefList(surf)} :
        IF overwrite
        THEN \E locals \in {EvictAll(DV_listLocal, coef_list)} :
             /\ DV_listNormal' = EvictAll(DV_listNormal, coef_list)
             /\ DV_listLocal' = Append(locals,
                                   geoDVLocal(dv_name, surf, coef_list, g_index))
             /\ DV_namesLocal' = SetName(DV_namesLocal, dv_name, (Len(locals) + 1) - 1)
             /\ err' = "ok"
             /\ UNCHANGED DV_namesNormal
        ELSE \E f \in {FilterTaken(0, coef_list, coef_list)} :
             IF f.err # "ok"
             THEN /\ err' = f.err
                  /\ UNCHANGED dvVars
             ELSE /\ DV_listLocal' = Append(DV_listLocal,
                                        geoDVLocal(dv_name, surf, f.list, g_index))
                  /\ DV_namesLocal' = SetName(DV_namesLocal, dv_name,
                                              (Len(DV_listLocal) + 1) - 1)
                  /\ err' = "ok"
                  /\ UNCHANGED <<DV_listNormal, DV_namesNormal>>
    /\ UNCHANGED <<surfs, fitVars, topoVars, indexVars, file, src, written, surf_coef,
                   coef, axisVars>>

\* addGeoDVNormal(dv_name, lower, upper, surf, overwrite), lines 2259-2323.
\* geoDVNormal.__init__ (line 3153) takes g_index and l_index; the call of
\* lines 2319-2320 passes g_index only, so the constructor raises TypeError
\* and nothing is appended.
addGeoDVNormal(dv_name, surf, overwrite) ==
    /\ src.indexed
    /\ Len(calls) < MaxDV
    /\ calls' = Append(calls, Call("Normal", dv_name, surf, overwrite))
    /\ \E coef_list \in {SurfaceCoefList(surf)} :
        IF overwrite
        THEN /\ DV_listNormal' = EvictAll(DV_listNormal, coef_list)
             /\ DV_listLocal' = EvictAll(DV_listLocal, coef_list)
             /\ err' = "TypeError"
             /\ UNCHANGED <<DV_namesNormal, DV_namesLocal>>
        ELSE \E f \in {FilterTaken(0, coef_list, coef_list)} :
             /\ err' = IF f.err # "ok" THEN f.err ELSE "TypeError"
             /\ UNCHANGED dvVars
    /\ UNCHANGED <<surfs, fitVars, topoVars, indexVars, file, src, written, surf_coef,
                   coef, axisVars>>

\* a caller that names its design variables dv1, dv2, ... in call order
NextName == Len(calls) + 1

AddLocal ==
    \E surf \in 0..(nSurf - 1) : \E overwrite \in BOOLEAN :
        addGeoDVLocal(NextName, surf, overwrite)
AddNormal ==
    \E surf \in 0..(nSurf - 1) : \E overwrite \in BOOLEAN :
        addGeoDVNormal(NextName, surf, overwrite)

-----------------------------------------------------------------------------
(* Reference axes (class ref_axis, lines 3004-3111).  A curve parameter s  *)
(* is the index of a station, s = 0 the first one; rotations about z are   *)
(* counted in quarter turns.                                               *)

CScale(z, k) == <<z[1] * k, z[2] * k>>
VScale(p, k) == <<CScale(p[1], k), CScale(p[2], k), CScale(p[3], k)>>
CNeg(z) == <<0 - z[1], 0 - z[2]>>

\* rotzM(theta) applied to D, and its inverse
RotZ(turns, D) ==
    CASE turns % 4 = 0 -> D
      [] turns % 4 = 1 -> <<CNeg(D[2]), D[1], D[3]>>
      [] turns % 4 = 2 -> <<CNeg(D[1]), CNeg(D[2]), D[3]>>
      [] turns % 4 = 3 -> <<D[2], CNeg(D[1]), D[3]>>

\* ref_axis.__init__(X, rot), lines 3006-3071
new_ref_axis(X, rot) ==
    [N |-> Len(X),
     links_s |-> <<>>, links_x |-> <<>>, coef_list |-> <<>>,
     con_type |-> "None",
     base_point |-> CPt(X[1]),
     base_point_s |-> -1, base_point_D |-> <<>>,
     end_point |-> CPt(X[Len(X)]),
     end_point_s |-> -1, end_point_D |-> <<>>,
     x |-> [k \in 1..Len(X) |-> VSub(CPt(X[k]), CPt(X[1]))],
     rot |-> rot,
     scale |-> [k \in 1..Len(X) |-> 1],
     xs_coef |-> [k \in 1..Len(X) |-> CPt(X[k])],
     rotzs_coef |-> rot,
     scales_coef |-> [k \in 1..Len(X) |-> 1]]

\* ref_axis.update(), lines 3073-3086
ref_axis_update(ra) ==
    LET fresh == [k \in 1..ra.N |-> VAdd(ra.base_point, ra.x[k])]
    IN  [ra EXCEPT !.xs_coef = IF ra.con_type = "full"
                                THEN [fresh EXCEPT ![ra.N] = ra.end_point]
                                ELSE fresh,
                   !.rotzs_coef = ra.rot,
                   !.scales_coef = ra.scale]

\* xs.getValue(s), scales(s) and the two rotation matrices applied to D
xs_getValue(ra, s) == ra.xs_coef[s + 1]
scales_at(ra, s) == ra.scales_coef[s + 1]
getRotMatrixGlobalToLocal(ra, s, D) == RotZ(ra.rotzs_coef[s + 1], D)
getRotMatrixLocalToGlobal(ra, s, D) == RotZ(4 - (ra.rotzs_coef[s + 1] % 4), D)

\* squared distance of two real points
Dist3(a, b) ==
    (a[1] - b[1]) * (a[1] - b[1]) + (a[2] - b[2]) * (a[2] - b[2])
    + (a[3] - b[3]) * (a[3] - b[3])

\* xs.projectPoint(pt): the parameter of the closest point of the curve
\* (the closest station) and the vector from there to pt
projectPoint(ra, pt) ==
    LET d(k) == Dist3(RealPt(ra.xs_coef[k]), RealPt(pt))
        s == Min({k \in 1..ra.N : \A m \in 1..ra.N : d(k) <= d(m)}) - 1
    IN  [s |-> s, D |-> VSub(pt, ra.xs_coef[s + 1])]

\* addRefAxisCon(axis1, axis2, con_type), lines 1827-1861: the axis list, the
\* connection list and the exception it ends with
addRefAxisCon(axis1, axis2, con_type) ==
    LET a1 == ref_axis[axis1 + 1]
        a2 == ref_axis[axis2 + 1]
        b == projectPoint(a1, xs_getValue(a2, 0))
        based == [a2 EXCEPT !.base_point_s = b.s,
                            !.base_point_D = getRotMatrixGlobalToLocal(a1, b.s, b.D),
                            !.con_type = con_type]
        e == projectPoint(a1, xs_getValue(a2, a2.N - 1))
        ended == [based EXCEPT !.end_point_s = e.s,
                               !.end_point_D = getRotMatrixGlobalToLocal(a1, e.s, e.D)]
    IN  IF con_type = "full" /\ a2.N # 2
        THEN [ref_axis |-> [ref_axis EXCEPT ![axis2 + 1] = based],
              ref_axis_con |-> ref_axis_con,
              err |-> "AssertionError"]
        ELSE [ref_axis |-> [ref_axis EXCEPT ![axis2 + 1] =
                              IF con_type = "full" THEN ended ELSE based],
              ref_axis_con |-> Append(ref_axis_con, <<axis1, axis2, con_type>>),
              err |-> "ok"]

\* the s-positions getRefAxisConnection (lines 1875-1964) returns for the
\* sections of a surface of n sections on an axis of N stations: all at the
\* first station, or one station per section as far as they go
AttachmentKinds == {"first", "spread"}
Attachment(att, n, N) ==
    [k \in 1..n |-> IF att = "first" THEN 0 ELSE Min({k - 1, N - 1})]

\* the links of lines 1797-1821 for the ids of coef_list on axis ra
LinkOf(ra, id, surf_ids, att, type) ==
    LET hits == {jj \in 1..Len(g_index[id + 1]) : g_index[id + 1][jj][1] \in surf_ids}
        loc == g_index[id + 1][IF hits = {} THEN Len(g_index[id + 1]) ELSE Min(hits)]
        sf == surfs[loc[1] + 1]
        s == IF type = 0 THEN Attachment(att, sf.Nctlu, ra.N)[loc[2] + 1]
                         ELSE Attachment(att, sf.Nctlv, ra.N)[loc[3] + 1]
    IN  [s |-> s,
         x |-> getRotMatrixGlobalToLocal(ra, s, VSub(coef[id + 1], xs_getValue(ra, s)))]

\* unique(coef_list) sorted (lines 1770-1771)
RECURSIVE SortedSeq(_)
SortedSeq(S) == IF S = {} THEN <<>> ELSE <<Min(S)>> \o SortedSeq(S \ {Min(S)})

\* the axis addRefAxis(surf_ids, X, rot) appends (lines 1748-1825), for
\* nrefsecs = None and point_select = None
addRefAxis(surf_ids, X, rot, att, type) ==
    LET ra == new_ref_axis(X, rot)
        coef_list == SortedSeq(UNION {Range(SurfaceCoefList(isurf)) : isurf \in surf_ids})
        links == [k \in 1..Len(coef_list) |-> LinkOf(ra, coef_list[k], surf_ids, att, type)]
    IN  [ra EXCEPT !.links_s = [k \in 1..Len(coef_list) |-> links[k].s],
                   !.links_x = [k \in 1..Len(coef_list) |-> links[k].x],
                   !.coef_list = coef_list]

-----------------------------------------------------------------------------
(* Global design variables (class geoDVGlobal, lines 3113-3148).  The      *)
(* function of a variable is supplied by the caller; the ones used here    *)
(* set the base point of one axis to a fixed origin plus the value:        *)
(* "translate" takes a vector, "raise" an integer added to z.              *)

\* geoDVGlobal.__init__; value is the list of the components
geoDVGlobal(dv_name, value, function, useit) ==
    [name |-> dv_name, value |-> value,
     nVal |-> IF function.kind = "raise" THEN 1 ELSE Len(value),
     function |-> function, useit |-> useit]

\* geoDVGlobal.__call__(ref_axis): self.function(self.value, ref_axis)
ApplyGlobal(dv, axes) ==
    LET f == dv.function
        v == IF f.kind = "raise" THEN <<Cx(0), Cx(0), dv.value[1]>>
             ELSE <<dv.value[1], dv.value[2], dv.value[3]>>
    IN  [axes EXCEPT ![f.axis + 1].base_point = VAdd(CPt(f.origin), v)]

-----------------------------------------------------------------------------
(* _updateCoef (lines 1970-2059), update (2061-2073) and                   *)
(* _updateSurfaceCoef (2075-2085) as the list of the steps they run and    *)
(* the effect of each step on st = (ref_axis, coef, surf_coef, dvg, err,   *)
(* log)                                                                    *)

Step(op, i) == [op |-> op, i |-> i]

RECURSIVE Flatten(_)
Flatten(ss) == IF ss = <<>> THEN <<>> ELSE Head(ss) \o Flatten(Tail(ss))

\* a variant that applies the Local design variables before the
\* coefficients are recomputed from the axes
UpdateCoefPlan_localFirst(local) ==
    [i \in 1..Len(DV_listGlobal) |-> Step("global", i - 1)]
    \o (IF Len(ref_axis_con) > 0
        THEN Flatten([i \in 1..Len(ref_axis_con) |->
                 <<Step("parent", i - 1), Step("anchor", i - 1), Step("child", i - 1)>>])
        ELSE [r \in 1..Len(ref_axis) |-> Step("axis", r - 1)])
    \o (IF local
        THEN [i \in 1..Len(DV_listNormal) |-> Step("normal", i - 1)]
             \o [i \in 1..Len(DV_listLocal) |-> Step("local", i - 1)]
        ELSE <<>>)
    \o [r \in 1..Len(ref_axis) |-> Step("coef", r - 1)]

\* the loops of _updateCoef(local) in the order of the source
UpdateCoefPlan(local) ==
    [i \in 1..Len(DV_listGlobal) |-> Step("global", i - 1)]
    \o (IF Len(ref_axis_con) > 0
        THEN Flatten([i \in 1..Len(ref_axis_con) |->
                 <<Step("parent", i - 1), Step("anchor", i - 1), Step("child", i - 1)>>])
        ELSE [r \in 1..Len(ref_axis) |-> Step("axis", r - 1)])
    \o [r \in 1..Len(ref_axis) |-> Step("coef", r - 1)]
    \o (IF local
        THEN [i \in 1..Len(DV_listNormal) |-> Step("normal", i - 1)]
             \o [i \in 1..Len(DV_listLocal) |-> Step("local", i - 1)]
        ELSE <<>>)

\* update(): _updateCoef(local=True), then _updateSurfaceCoef()
UpdatePlan == UpdateCoefPlan(TRUE) \o <<Step("push", 0)>>

\* lines 1987-2006: the anchor points of the child of connection i
Anchor(axes, i) ==
    LET a1 == axes[ref_axis_con[i + 1][1] + 1]
        a2 == axes[ref_axis_con[i + 1][2] + 1]
        at(s, D) == VAdd(xs_getValue(a1, s),
                         VScale(getRotMatrixLocalToGlobal(a1, s, D), scales_at(a1, s)))
        based == [a2 EXCEPT !.base_point = at(a2.base_point_s, a2.base_point_D)]
    IN  IF a2.con_type # "full"
        THEN [axis |-> based, err |-> "ok"]
        ELSE IF a2.end_point_s = -1
        THEN [axis |-> based, err |-> "TypeError"]
        ELSE [axis |-> [based EXCEPT !.end_point = at(a2.end_point_s, a2.end_point_D)],
              err |-> "ok"]

\* getcomplexcoef for axis ra, as the Python version of lines 2034-2040
RECURSIVE LinkedCoef(_, _, _)
LinkedCoef(ra, k, cf) ==
    IF k = Len(ra.coef_list) THEN cf
    ELSE LinkedCoef(ra, k + 1,
             [cf EXCEPT ![ra.coef_list[k + 1] + 1] =
                 VAdd(xs_getValue(ra, ra.links_s[k + 1]),
                      VScale(getRotMatrixLocalToGlobal(ra, ra.links_s[k + 1], ra.links_x[k + 1]),
                             scales_at(ra, ra.links_s[k + 1])))])

\* geoDVLocal.__call__(coef), lines 3282-3291
RECURSIVE ApplyLocal(_, _, _)
ApplyLocal(dv, i, cf) ==
    IF i = dv.nVal THEN cf
    ELSE ApplyLocal(dv, i + 1,
             [cf EXCEPT ![dv.coef_list[i + 1] + 1] =
                 VAdd(@, <<dv.value[3 * i + 1], dv.value[3 * i + 2], dv.value[3 * i + 3]>>)])

\* geoDVNormal.__call__(surface, coef): each control point of the group is
\* moved by its value along the surface normal, which is z for the patches
\* modelled here
RECURSIVE ApplyNormal(_, _, _)
ApplyNormal(dv, i, cf) ==
    IF i = dv.nVal THEN cf
    ELSE ApplyNormal(dv, i + 1,
             [cf EXCEPT ![dv.coef_list[i + 1] + 1] = VAdd(@, <<Cx(0), Cx(0), dv.value[i + 1]>>)])

\* _updateSurfaceCoef, lines 2075-2085, with gi for self.g_index
PushCoefOn(cf, sc, gi) ==
    [s \in 1..Len(sc) |->
        [p \in DOMAIN sc[s] |->
            LET from == {ii \in 1..Len(cf) :
                            \E jj \in 1..Len(gi[ii]) :
                                gi[ii][jj] = <<s - 1, p[1], p[2]>>}
            IN  IF from = {} THEN sc[s][p] ELSE RealPt(cf[Max(from)])]]

\* a variant that writes each coefficient to the first location listed for
\* it only
PushCoef_firstListing(cf, sc) ==
    [s \in 1..Len(sc) |->
        [p \in DOMAIN sc[s] |->
            LET from == {ii \in 1..Len(cf) :
                            /\ g_index[ii] # <<>>
                            /\ g_index[ii][1] = <<s - 1, p[1], p[2]>>}
            IN  IF from = {} THEN sc[s][p] ELSE RealPt(cf[Max(from)])]]

\* _updateSurfaceCoef on self.g_index
PushCoef(cf, sc) == PushCoefOn(cf, sc, g_index)

\* one step of the plan
RunStep(st, step) ==
    IF st.err # "ok" THEN st
    ELSE
    LET s1 == [st EXCEPT !.log = Append(@, step)]
        i == step.i
    IN  CASE step.op = "global" ->
                [s1 EXCEPT !.ref_axis = ApplyGlobal(st.dvg[i + 1], st.ref_axis)]
          [] step.op = "parent" ->
                [s1 EXCEPT !.ref_axis[ref_axis_con[i + 1][1] + 1] = ref_axis_update(@)]
          [] step.op = "anchor" ->
                [s1 EXCEPT !.ref_axis[ref_axis_con[i + 1][2] + 1] = Anchor(st.ref_axis, i).axis,
                           !.err = Anchor(st.ref_axis, i).err]
          [] step.op = "child" ->
                [s1 EXCEPT !.ref_axis[ref_axis_con[i + 1][2] + 1] = ref_axis_update(@)]
          [] step.op = "axis" ->
                [s1 EXCEPT !.ref_axis[i + 1] = ref_axis_update(@)]
          [] step.op = "coef" ->
                [s1 EXCEPT !.coef = LinkedCoef(st.ref_axis[i + 1], 0, st.coef)]
          [] step.op = "normal" ->
                [s1 EXCEPT !.coef = ApplyNormal(DV_listNormal[i + 1], 0, st.coef)]
          [] step.op = "local" ->
                [s1 EXCEPT !.coef = ApplyLocal(DV_listLocal[i + 1], 0, st.coef)]
          [] step.op = "push" ->
                [s1 EXCEPT !.surf_coef = PushCoef(st.coef, st.surf_coef)]

RECURSIVE RunSteps(_, _)
RunSteps(st, plan) ==
    IF plan = <<>> THEN st ELSE RunSteps(RunStep(st, Head(plan)), Tail(plan))

\* the state a call starts from
Entry(dvg, log) ==
    [ref_axis |-> ref_axis, coef |-> coef, surf_coef |-> surf_coef, dvg |-> dvg,
     err |-> "ok", log |-> log]

\* the models design variables are registered on
DVGeometries ==
    {<<A_quad, B_right>>, <<A_quad, B_tip>>, <<A_tip, B_right>>,
     <<A_quad, B_far>>, <<A_tip>>}
DVSizes == {<<2, 2>>, <<3, 3>>, <<3, 2>>}

InitDV ==
    /\ Init
    /\ \E g \in DVGeometries : \E sz \in [1..Len(g) -> DVSizes] :
          surfs = [s \in 1..Len(g) |-> WithSize(g[s], sz[s])]

\* the model is stitched once, with node_tol = edge_tol = 1, before the
\* registrations
StitchOnce == src.op = "none" /\ CalcEdgeConnectivity(1, 1)

NextDV == StitchOnce \/ AddLocal \/ AddNormal

SpecDV == InitDV /\ [][NextDV]_vars

-----------------------------------------------------------------------------
(* getSizes (lines 2087-2122) and calcCtlDeriv (lines 2151-2220).  A column *)
(* of dCoefdx is the set of its non-zero entries <<row, value>>.            *)

\* getSizes(): the three counts, or the IndexError of line 2111 when there
\* are more Normal than Local groups
getSizes ==
    LET NdvGlobal == SumSeq([i \in 1..Len(DV_listGlobal) |->
                        IF DV_listGlobal[i].useit THEN DV_listGlobal[i].nVal ELSE 0])
        NdvNormal == SumSeq([i \in 1..Min({Len(DV_listNormal), Len(DV_listLocal)}) |->
                        DV_listLocal[i].nVal])
        NdvLocal == SumSeq([i \in 1..Len(DV_listLocal) |-> DV_listLocal[i].nVal * 3])
    IN  [NdvGlobal |-> NdvGlobal, NdvNormal |-> NdvNormal, NdvLocal |-> NdvLocal,
         Nctl |-> Len(coef),
         err |-> IF Len(DV_listNormal) > Len(DV_listLocal) THEN "IndexError" ELSE "ok"]

\* _initdCoefdx(): zeros((Nctl*3, Ndv))
initdCoefdx(sz) ==
    [Ndv |-> sz.NdvGlobal + sz.NdvNormal + sz.NdvLocal,
     col |-> [c \in 1..(sz.NdvGlobal + sz.NdvNormal + sz.NdvLocal) |-> {}]]

\* the components (idv, jj) the master loop of lines 2163-2187 visits
PerturbedComponents ==
    Flatten([idv \in 1..Len(DV_listGlobal) |->
        IF DV_listGlobal[idv].useit
        THEN [jj \in 1..DV_listGlobal[idv].nVal |-> <<idv - 1, jj - 1>>]
        ELSE <<>>])

\* value += h or value[jj] += h (lines 2168-2172), k = 1; the reset of
\* lines 2180-2184, k = -1
Perturb(dvg, idv, jj, k) ==
    [dvg EXCEPT ![idv + 1].value[jj + 1] = CAdd(@, <<0, k>>)]

\* imag(self.coef.flatten())/1e-40 as a column
ImagColumn(cf) ==
    {<<3 * (ii - 1) + (d - 1), cf[ii][d][2]>> : ii \in 1..Len(cf), d \in 1..3}
    \ {<<3 * (ii - 1) + (d - 1), 0>> : ii \in 1..Len(cf), d \in 1..3}

\* a variant that leaves the component perturbed
CtlColumn_noRestore(st, c) ==
    IF st.err # "ok" THEN st
    ELSE
    LET pert == [st EXCEPT !.dvg = Perturb(st.dvg, c[1], c[2], 1),
                           !.log = Append(@, [op |-> "perturb", i |-> c[1], j |-> c[2]])]
        ran == RunSteps(pert, UpdateCoefPlan(FALSE))
    IN  IF ran.err # "ok" THEN ran
        ELSE IF ran.col_counter + 1 > ran.J.Ndv
        THEN [ran EXCEPT !.err = "IndexError"]
        ELSE [ran EXCEPT !.J.col[ran.col_counter + 1] = ImagColumn(ran.coef),
                         !.col_counter = @ + 1,
                         !.log = Append(@, [op |-> "restore", i |-> c[1], j |-> c[2]])]

\* one pass of the body of the master loop for component c = (idv, jj), on
\* st extended with the Jacobian J and the column counter
CtlColumn(st, c) ==
    IF st.err # "ok" THEN st
    ELSE
    LET pert == [st EXCEPT !.dvg = Perturb(st.dvg, c[1], c[2], 1),
                           !.log = Append(@, [op |-> "perturb", i |-> c[1], j |-> c[2]])]
        ran == RunSteps(pert, UpdateCoefPlan(FALSE))
    IN  IF ran.err # "ok" THEN ran
        ELSE IF ran.col_counter + 1 > ran.J.Ndv
        THEN [ran EXCEPT !.err = "IndexError"]
        ELSE [ran EXCEPT !.J.col[ran.col_counter + 1] = ImagColumn(ran.coef),
                         !.col_counter = @ + 1,
                         !.dvg = Perturb(ran.dvg, c[1], c[2], -1),
                         !.log = Append(@, [op |-> "restore", i |-> c[1], j |-> c[2]])]

RECURSIVE CtlColumns(_, _)
CtlColumns(st, cs) ==
    IF cs = <<>> THEN st ELSE CtlColumns(CtlColumn(st, Head(cs)), Tail(cs))

\* the entries the loop of lines 2205-2213 sets, one column per component
\* of every Local group
LocalEntries ==
    Flatten([idv \in 1..Len(DV_listLocal) |->
        Flatten([i \in 1..DV_listLocal[idv].nVal |->
            [j \in 1..3 |-> 3 * DV_listLocal[idv].coef_list[i] + (j - 1)]])])

RECURSIVE LocalColumns(_, _)
LocalColumns(st, rows) ==
    IF rows = <<>> \/ st.err # "ok" THEN st
    ELSE IF st.col_counter + 1 > st.J.Ndv
    THEN [st EXCEPT !.err = "IndexError"]
    ELSE LocalColumns(
             [st EXCEPT !.J.col[st.col_counter + 1] =
                            {e \in @ : e[1] # Head(rows)} \cup {<<Head(rows), 1>>},
                        !.col_counter = @ + 1],
             Tail(rows))

\* the loop over the Normal groups (lines 2192-2203): the first group is
\* asked for its normals, and getNormals (line 3216) reads self.l_indexs,
\* an attribute the constructor never sets (it sets l_index)
NormalColumns(st) ==
    IF st.err # "ok" \/ DV_listNormal = <<>> THEN st
    ELSE [st EXCEPT !.err = "AttributeError"]

\* calcCtlDeriv(): the matrix is allocated when there is none (line 2157),
\* then the Global, Normal and Local loops write their columns
calcCtlDeriv ==
    LET sz == getSizes
        J0 == IF dCoefdx = NoJacobian THEN initdCoefdx(sz) ELSE dCoefdx
        st0 == [ref_axis |-> ref_axis, coef |-> coef, surf_coef |-> surf_coef,
                dvg |-> DV_listGlobal, err |-> "ok", log |-> <<>>,
                J |-> J0, col_counter |-> 0]
    IN  IF dCoefdx = NoJacobian /\ sz.err # "ok"
        THEN [st0 EXCEPT !.err = sz.err, !.J = dCoefdx]
        ELSE LocalColumns(NormalColumns(CtlColumns(st0, PerturbedComponents)),
                          LocalEntries)

-----------------------------------------------------------------------------
(* The calls of a script that sets up axes and design variables and then   *)
(* updates the model                                                       *)

\* the axes the script adds, in this order: two hinge-like lines of two
\* stations and a spine of three
AxisLines ==
    << << <<0, 0, 0>>, <<4, 0, 0>> >>,
       << <<4, 4, 0>>, <<8, 4, 0>> >>,
       << <<0, 4, 0>>, <<4, 4, 0>>, <<8, 4, 0>> >> >>

\* the surfaces whose coefficients are linked to each of them
AxisSurfs == <<{0}, {1}, {1}>>

\* where getRefAxisConnection attaches the rows of the patch to each of them
AxisAttach == <<"spread", "first", "spread">>

\* the script sets the model up before it runs update() or calcCtlDeriv()
Setup == steps = <<>> /\ dCoefdx = NoJacobian

\* addRefAxis([surf], X, rot) for the next line of AxisLines, rotations zero
AddRefAxis ==
    /\ Setup /\ src.indexed /\ err = "ok"
    /\ Len(ref_axis) < Len(AxisLines)
    /\ ref_axis' = Append(ref_axis,
            addRefAxis(AxisSurfs[Len(ref_axis) + 1], AxisLines[Len(ref_axis) + 1],
                       [k \in 1..Len(AxisLines[Len(ref_axis) + 1]) |-> 0],
                       AxisAttach[Len(ref_axis) + 1], 0))
    /\ UNCHANGED <<surfs, fitVars, topoVars, indexVars, file, dvVars, src, err, written,
                   calls, surf_coef, coef, ref_axis_con, DV_listGlobal,
                   DV_namesGlobal, dCoefdx, steps>>

\* the connections the script may ask for
ConChoices ==
    {<<0, 1, "full">>, <<0, 1, "base">>, <<0, 2, "full">>, <<1, 2, "base">>}

AddRefAxisCon ==
    /\ Setup
    /\ \E c \in ConChoices :
          /\ c[1] < Len(ref_axis) /\ c[2] < Len(ref_axis)
          /\ \A k \in 1..Len(ref_axis_con) : ref_axis_con[k][2] # c[2]
          /\ \E r \in {addRefAxisCon(c[1], c[2], c[3])} :
                /\ ref_axis' = r.ref_axis
                /\ ref_axis_con' = r.ref_axis_con
                /\ err' = r.err
    /\ UNCHANGED <<surfs, fitVars, topoVars, indexVars, file, dvVars, src, written, calls,
                   surf_coef, coef, DV_listGlobal, DV_namesGlobal, dCoefdx, steps>>

\* the Global variables the script may register: a translation of the first
\* axis by (0,0,1), and a unit raise of the last axis, used or not
GlobalChoices ==
    {[kind |-> "translate", value |-> <<Cx(0), Cx(0), Cx(1)>>, useit |-> TRUE],
     [kind |-> "raise", value |-> <<Cx(1)>>, useit |-> TRUE],
     [kind |-> "raise", value |-> <<Cx(2)>>, useit |-> FALSE]}

\* addGeoDVGlobal(dv_name, value, lower, upper, function, useit),
\* lines 2392-2397
addGeoDVGlobal(dv_name, value, function, useit) ==
    /\ DV_listGlobal' = Append(DV_listGlobal, geoDVGlobal(dv_name, value, function, useit))
    /\ DV_namesGlobal' = SetName(DV_namesGlobal, dv_name, (Len(DV_listGlobal) + 1) - 1)
    /\ UNCHANGED <<surfs, fitVars, topoVars, indexVars, file, dvVars, src, err, written,
                   calls, surf_coef, coef, ref_axis, ref_axis_con, dCoefdx, steps>>

AddGlobalAnytime ==
    /\ ref_axis # <<>>
    /\ Len(DV_listGlobal) < MaxDV
    /\ \E g \in GlobalChoices :
       \E axis \in {IF g.kind = "translate" THEN 0 ELSE Len(ref_axis) - 1} :
          addGeoDVGlobal(Len(DV_listGlobal) + 1, g.value,
              [kind |-> g.kind, axis |-> axis,
               origin |-> RealPt(ref_axis[axis + 1].base_point)],
              g.useit)

\* the script registers its Global variables before it updates the model
AddGlobal == Setup /\ AddGlobalAnytime

\* one Local group on surface 0, and the caller giving its first control
\* point the value (0,0,1)
AddLocalOnce ==
    /\ Setup /\ src.indexed /\ err = "ok" /\ DV_listLocal = <<>>
    /\ addGeoDVLocal(NextName, 0, FALSE)

SetLocalValue ==
    /\ Setup
    /\ \E idv \in 1..Len(DV_listLocal) :
          /\ DV_listLocal[idv].value[3] = Cx(0)
          /\ DV_listLocal' = [DV_listLocal EXCEPT ![idv].value[3] = Cx(1)]
    /\ UNCHANGED <<surfs, fitVars, topoVars, indexVars, file, DV_listNormal, DV_namesNormal,
                   DV_namesLocal, src, err, written, calls, surf_coef, coef,
                   axisVars>>

\* update(), lines 2061-2073
UpdateCall ==
    /\ src.indexed
    /\ \E r \in {RunSteps(Entry(DV_listGlobal, <<>>), UpdatePlan)} :
          /\ ref_axis' = r.ref_axis
          /\ coef' = r.coef
          /\ surf_coef' = r.surf_coef
          /\ steps' = r.log
          /\ err' = r.err
    /\ updates' = updates + 1
    /\ UNCHANGED <<surfs, order, fit, jac, sub, lift, ndv, dgrun, topoVars,
                   indexVars, file, dvVars, src, written, calls, ref_axis_con,
                   DV_listGlobal, DV_namesGlobal, dCoefdx>>

\* an update() that does not follow another one
Update ==
    /\ IF steps = <<>> THEN TRUE ELSE steps[Len(steps)].op # "push"
    /\ UpdateCall

\* update() once more, right after the script's first update() returned
UpdateAgain ==
    /\ updates = 1 /\ err = "ok"
    /\ steps # <<>> /\ steps[Len(steps)].op = "push"
    /\ UpdateCall

\* calcCtlDeriv(), lines 2151-2220
CalcCtlDeriv ==
    /\ src.indexed /\ dCoefdx = NoJacobian
    /\ \E r \in {calcCtlDeriv} :
          /\ ref_axis' = r.ref_axis
          /\ coef' = r.coef
          /\ DV_listGlobal' = r.dvg
          /\ dCoefdx' = r.J
          /\ steps' = r.log
          /\ err' = r.err
    /\ UNCHANGED <<surfs, fitVars, topoVars, indexVars, file, dvVars, src, written, calls,
                   surf_coef, ref_axis_con, DV_namesGlobal>>

\* the model the script works on: the two squares, two by two control
\* points each or three by two on the first
InitUp ==
    /\ Init
    /\ surfs = <<WithSize(A_quad, <<2, 2>>), WithSize(B_right, <<2, 2>>)>>

NextUp ==
    \/ StitchOnce \/ AddRefAxis \/ AddRefAxisCon \/ AddGlobal \/ AddLocalOnce
    \/ SetLocalValue \/ Update \/ CalcCtlDeriv

SpecUp == InitUp /\ [][NextUp]_vars

\* the same script without the derivatives, calling update() twice
NextTwice ==
    \/ StitchOnce \/ AddRefAxis \/ AddRefAxisCon \/ AddGlobal \/ AddLocalOnce
    \/ SetLocalValue \/ Update \/ UpdateAgain

SpecTwice == InitUp /\ [][NextTwice]_vars

-----------------------------------------------------------------------------
(* Models that hold Normal groups, and the sizes of the design-variable    *)
(* vector.  addGeoDVNormal cannot build a group (its constructor call      *)
(* raises), so the script builds it with the seven arguments of the        *)
(* constructor and appends it to DV_listNormal itself.                     *)

\* geoDVNormal.__init__, lines 3153-3200
geoDVNormal(dv_name, surface_id, coef_list, global_coef, local_index) ==
    [name |-> dv_name,
     nVal |-> Len(coef_list),
     value |-> [k \in 1..Len(coef_list) |-> Cx(0)],
     surface_id |-> surface_id,
     coef_list |-> coef_list,
     l_index |-> local_index[surface_id + 1],
     local_coef_index |-> [icoef \in 1..Len(coef_list) |->
         <<global_coef[coef_list[icoef] + 1][1][2],
           global_coef[coef_list[icoef] + 1][1][3]>>]]

\* geo.DV_listNormal.append(geoDVNormal(name, lower, upper, surf, coef_list,
\* geo.g_index, geo.l_index)) over all the control points of the surface
PlaceNormal ==
    /\ src.indexed
    /\ Len(calls) < MaxDV
    /\ \E surf \in 0..(nSurf - 1) :
          /\ calls' = Append(calls, Call("Placed", NextName, surf, FALSE))
          /\ DV_listNormal' = Append(DV_listNormal,
                geoDVNormal(NextName, surf, SurfaceCoefList(surf), g_index, l_index))
    /\ err' = "ok"
    /\ UNCHANGED <<surfs, fitVars, topoVars, indexVars, file, DV_listLocal,
                   DV_namesNormal, DV_namesLocal, src, written, surf_coef, coef,
                   axisVars>>

\* NdvGlobal, NdvNormal, NdvLocal, Nctl = getSizes()
GetSizes ==
    /\ src.indexed
    /\ ndv' = getSizes
    /\ err' = getSizes.err
    /\ UNCHANGED <<surfs, order, fit, jac, sub, lift, dgrun, updates, topoVars, indexVars,
                   file, dvVars, src, written, calls, surf_coef, coef, axisVars>>

\* the script adds the first axis only
AddFirstAxis == ref_axis = <<>> /\ AddRefAxis

NextSizes ==
    \/ StitchOnce \/ AddFirstAxis \/ AddGlobalAnytime \/ AddLocal \/ AddNormal
    \/ PlaceNormal \/ GetSizes \/ CalcCtlDeriv

SpecSizes == InitUp /\ [][NextSizes]_vars

\* a script that only registers design variables, through the three add
\* methods
NextNames ==
    StitchOnce \/ AddFirstAxis \/ AddGlobalAnytime \/ AddLocal \/ AddNormal

SpecNames == InitUp /\ [][NextNames]_vars

-----------------------------------------------------------------------------
(* Design-group assignment, one step at a time: the loop of lines 848-855  *)
(* and the calls of addDGEdge (lines 879-903) it makes.  A frame of the    *)
(* call stack is the edge i of the call and the position k of its double   *)
(* loop over (isurf, iedge).                                               *)

Frame(i, k) == [i |-> i, k |-> k]

\* variant: a group id is skipped
NextGroup_skip(dg_counter) == dg_counter + 2

\* dg_counter += 1 (line 851)
NextGroup(dg_counter) == dg_counter + 1
Top == dgrun.stack[Len(dgrun.stack)]
Pop(stack) == SubSeq(stack, 1, Len(stack) - 1)

\* the node and edge scans are done (lines 781-845), dg_counter = -1
DGStart ==
    /\ dgrun.pc = "idle"
    /\ \E ns \in {NodeScan(0, NodeScanInit, 1)} :
       \E es \in {EdgeScan(0, EdgeScanInit, ns.node_link, 1)} :
          dgrun' = [pc |-> "loop", i |-> 0, dg_counter |-> dg_counter_init,
                    edge_list |-> es.edge_list, edge_link |-> es.edge_link,
                    stack |-> <<>>]
    /\ UNCHANGED <<surfs, order, fit, jac, sub, lift, ndv, updates, topoVars, indexVars,
                   file, dvVars, src, err, written, calls, surf_coef, coef,
                   axisVars>>

\* one pass of the loop of lines 849-854 over edge i
DGSeed ==
    /\ dgrun.pc = "loop" /\ dgrun.stack = <<>>
    /\ dgrun.i < Len(dgrun.edge_list)
    /\ dgrun' =
          IF dgrun.edge_list[dgrun.i + 1].dg = -1
          THEN [dgrun EXCEPT !.dg_counter = NextGroup(@),
                             !.edge_list[dgrun.i + 1].dg = NextGroup(dgrun.dg_counter),
                             !.stack = <<Frame(dgrun.i, 0)>>,
                             !.i = @ + 1]
          ELSE [dgrun EXCEPT !.i = @ + 1]
    /\ UNCHANGED <<surfs, order, fit, jac, sub, lift, ndv, updates, topoVars, indexVars,
                   file, dvVars, src, err, written, calls, surf_coef, coef,
                   axisVars>>

\* one pass of the double loop of addDGEdge (lines 881-900) in the running
\* call
DGVisit ==
    /\ dgrun.pc = "loop" /\ dgrun.stack # <<>>
    /\ Top.k < 4 * nSurf
    /\ \E isurf \in {Top.k \div 4} : \E iedge \in {Top.k % 4} :
       \E next \in {[dgrun EXCEPT !.stack[Len(dgrun.stack)].k = @ + 1]} :
          IF dgrun.edge_link[isurf + 1][iedge + 1] # Top.i
          THEN dgrun' = next
          ELSE \E oppositeEdge \in {dgrun.edge_link[isurf + 1][flipEdge(iedge) + 1]} :
               \E counted \in {[next EXCEPT !.edge_list[Top.i + 1].Nctl =
                                   IF iedge \in {0, 1} THEN surfs[isurf + 1].Nctlu
                                                       ELSE surfs[isurf + 1].Nctlv]} :
                  IF counted.edge_list[oppositeEdge + 1].dg # -1
                  THEN dgrun' = counted
                  ELSE \E set \in {[counted EXCEPT !.edge_list[oppositeEdge + 1].dg =
                                        counted.edge_list[Top.i + 1].dg]} :
                       IF set.edge_list[oppositeEdge + 1].n1
                              # set.edge_list[oppositeEdge + 1].n2
                       THEN dgrun' = [set EXCEPT !.stack =
                                         Append(@, Frame(oppositeEdge, 0))]
                       ELSE dgrun' = set
    /\ UNCHANGED <<surfs, order, fit, jac, sub, lift, ndv, updates, topoVars, indexVars,
                   file, dvVars, src, err, written, calls, surf_coef, coef,
                   axisVars>>

\* the return of line 903
DGReturn ==
    /\ dgrun.pc = "loop" /\ dgrun.stack # <<>>
    /\ Top.k = 4 * nSurf
    /\ dgrun' = [dgrun EXCEPT !.stack = Pop(@)]
    /\ UNCHANGED <<surfs, order, fit, jac, sub, lift, ndv, updates, topoVars, indexVars,
                   file, dvVars, src, err, written, calls, surf_coef, coef,
                   axisVars>>

\* the loop of lines 849-854 is over
DGFinish ==
    /\ dgrun.pc = "loop" /\ dgrun.stack = <<>>
    /\ dgrun.i = Len(dgrun.edge_list)
    /\ dgrun' = [dgrun EXCEPT !.pc = "done"]
    /\ UNCHANGED <<surfs, order, fit, jac, sub, lift, ndv, updates, topoVars, indexVars,
                   file, dvVars, src, err, written, calls, surf_coef, coef,
                   axisVars>>

\* a tube: edges 0 and 1 of the patch are the same seam, edges 2 and 3 are
\* closed loops
A_tube == [corner |-> <<Pt(0, 0), Pt(4, 0), Pt(0, 0), Pt(4, 0)>>,
           mid |-> <<Pt(2, 0), Pt(2, 0), Pt(0, 2), Pt(4, 2)>>]
\* a cone: edge 3 of the patch runs back along edge 0
A_cone == [corner |-> <<Pt(0, 0), Pt(4, 0), Pt(4, 4), Pt(0, 0)>>,
           mid |-> <<Pt(2, 0), Pt(1, 3), Pt(3, 1), Pt(2, 0)>>]
\* the back of a tube whose front is A_quad: its sides are the sides of
\* A_quad, its bottom and top go round the back
B_back == [corner |-> <<Pt(4, 0), Pt(0, 0), Pt(4, 4), Pt(0, 4)>>,
           mid |-> <<Pt(2, 2), Pt(2, 6), Pt(4, 2), Pt(0, 2)>>]

DGGeometries ==
    Geometries
    \cup {<<A_tube>>, <<A_cone>>, <<A_quad, B_back>>, <<A_tube, A_tube>>,
          <<Transpose(A_quad), Transpose(B_back)>>,
          <<A_quad, B_right, C_top>>, <<A_quad, B_back, C_top>>}

InitDG ==
    /\ \E g \in DGGeometries : surfs = [s \in 1..Len(g) |-> WithSize(g[s], <<2, 3>>)]
    /\ Constructed

NextDG == DGStart \/ DGSeed \/ DGVisit \/ DGReturn \/ DGFinish

\* once the assignment has started the interpreter runs it to its end, if
\* it has one
SpecDG ==
    InitDG /\ [][NextDG]_vars
    /\ WF_vars(DGSeed \/ DGVisit \/ DGReturn \/ DGFinish)


-----------------------------------------------------------------------------
(* Vocabulary of the properties *)

Surfaces == 1..nSurf
Slots == 0..3
Grid(s) == (0..(surfs[s].Nctlu - 1)) \X (0..(surfs[s].Nctlv - 1))
TotalCells == SumSeq([s \in 1..nSurf |-> surfs[s].Nctlu * surfs[s].Nctlv])

\* number of control points along edge slot e of surface s
SlotLen(s, e) == IF e \in {0, 1} THEN surfs[s].Nctlu ELSE surfs[s].Nctlv

\* the k-th grid location along edge slot e of surface s
SlotLoc(s, e, k) ==
    CASE e = 0 -> <<k, 0>>
      [] e = 1 -> <<k, surfs[s].Nctlv - 1>>
      [] e = 2 -> <<0, k>>
      [] e = 3 -> <<surfs[s].Nctlu - 1, k>>

\* the grid location of corner slot n of surface s
CornerLoc(s, n) ==
    CASE n = 0 -> <<0, 0>>
      [] n = 1 -> <<surfs[s].Nctlu - 1, 0>>
      [] n = 2 -> <<0, surfs[s].Nctlv - 1>>
      [] n = 3 -> <<surfs[s].Nctlu - 1, surfs[s].Nctlv - 1>>

CornerLocs(s) == {CornerLoc(s, n) : n \in Slots}
InteriorLocs(s) == {p \in Grid(s) : p[1] > 0 /\ p[1] < surfs[s].Nctlu - 1
                                    /\ p[2] > 0 /\ p[2] < surfs[s].Nctlv - 1}
EdgeLocs(s) == Grid(s) \ (CornerLocs(s) \cup InteriorLocs(s))

\* the index is the one built for the stored topology
Indexed == src.indexed

\* how many times location <<s-1,i,j>> is listed in g_index
Listed(s, p) ==
    Cardinality({gk \in UNION {{g} \X (1..Len(g_index[g])) : g \in 1..Len(g_index)} :
                    g_index[gk[1]][gk[2]] = <<s - 1, p[1], p[2]>>})

IdsAt(s, locs) == {l_index[s][p] : p \in locs}
UsedIds == UNION {IdsAt(s, Grid(s)) : s \in Surfaces}

-----------------------------------------------------------------------------
(* Properties *)

\* C1: once calcGlobalNumbering has built the index, every grid location
\* (patch,i,j) is listed exactly once in g_index, in the list of the id
\* l_index gives it; no list is empty; the lengths of the lists add up to
\* the number of grid cells of all patches.
C1_EveryLocationListedOnce ==
    Ncoef >= 0 =>
        /\ Len(g_index) = Ncoef
        /\ \A s \in Surfaces : \A p \in Grid(s) :
              /\ l_index[s][p] \in 0..(Ncoef - 1)
              /\ \E k \in 1..Len(g_index[l_index[s][p] + 1]) :
                    g_index[l_index[s][p] + 1][k] = <<s - 1, p[1], p[2]>>
              /\ Listed(s, p) = 1
        /\ \A g \in 1..Len(g_index) : g_index[g] # <<>>
        /\ SumSeq([g \in 1..Len(g_index) |-> Len(g_index[g])]) = TotalCells

\* C1 witness: an index built for two patches in which some id is shared by
\* locations of both patches
C1_Witness ==
    /\ Indexed /\ nSurf = 2
    /\ \E g \in 1..Len(g_index) : \E a, b \in 1..Len(g_index[g]) :
          g_index[g][a][1] = 0 /\ g_index[g][b][1] = 1

\* C2: when two edge slots are linked to the same edge, one with direction
\* +1 and the other with direction -1, and both have n control points, the
\* k-th interior location along the first has the id of the (n-1-k)-th
\* along the second.
C2_ReversedEdgeSymmetry ==
    Indexed =>
        \A a, b \in Surfaces : \A e, f \in Slots :
            ( /\ edge_link[a][e + 1] = edge_link[b][f + 1]
              /\ edge_dir[a][e + 1] = 1
              /\ edge_dir[b][f + 1] = -1
              /\ SlotLen(a, e) = SlotLen(b, f) )
            => \A k \in 1..(SlotLen(a, e) - 2) :
                  l_index[a][SlotLoc(a, e, k)]
                    = l_index[b][SlotLoc(b, f, SlotLen(a, e) - 1 - k)]

\* C2 witness: a reversed link between two slots of four control points, so
\* that the two interior locations are exchanged
C2_Witness ==
    /\ Indexed
    /\ \E a, b \in Surfaces : \E e, f \in Slots :
          /\ edge_link[a][e + 1] = edge_link[b][f + 1]
          /\ edge_dir[a][e + 1] = 1
          /\ edge_dir[b][f + 1] = -1
          /\ SlotLen(a, e) = 4 /\ SlotLen(b, f) = 4

\* the corner first scanned with node id n, which is the node's entry in
\* node_list
NodeRep(n) ==
    LET k == Min({c \in 0..(4 * nSurf - 1) : node_link[(c \div 4) + 1][(c % 4) + 1] = n})
    IN  surfs[(k \div 4) + 1].corner[(k % 4) + 1]

SlotN1(s, e) == node_link[s][nodesFromEdge(e)[1] + 1]
SlotN2(s, e) == node_link[s][nodesFromEdge(e)[2] + 1]

\* edge slot e of surface s is collapsed: both ends on one node and the
\* midpoint within node_tol of it
Collapsed(s, e) ==
    /\ SlotN1(s, e) = SlotN2(s, e)
    /\ e_dist_lt(surfs[s].mid[e + 1], NodeRep(SlotN1(s, e)), src.node_tol)

\* C3: a degenerate edge (both ends on one node, midpoint within node_tol of
\* it) gets no fresh id: every interior location along it has its node's
\* id, and the ids in use are the node ids, the ids of the interior
\* locations of the other edges, and one id per strictly interior location.
C3_DegenerateEdgeNoNewIds ==
    (Indexed /\ src.op = "calc") =>
        /\ \A s \in Surfaces : \A e \in Slots :
              /\ edge_list[edge_link[s][e + 1] + 1].degen = 1 <=> Collapsed(s, e)
              /\ Collapsed(s, e) =>
                    \A k \in 1..(SlotLen(s, e) - 2) :
                        l_index[s][SlotLoc(s, e, k)] = SlotN1(s, e)
        /\ Ncoef = CountNodes(node_link)
                    + Cardinality({g \in CountNodes(node_link)..(Ncoef - 1) :
                         \E s \in Surfaces : \E e \in Slots :
                            /\ ~Collapsed(s, e)
                            /\ \E k \in 1..(SlotLen(s, e) - 2) :
                                  l_index[s][SlotLoc(s, e, k)] = g})
                    + SumSeq([s \in 1..nSurf |-> Cardinality(InteriorLocs(s))])

\* C3 witness: an indexed model with a degenerate edge that has interior
\* locations
C3_Witness ==
    /\ Indexed /\ src.op = "calc"
    /\ \E s \in Surfaces : \E e \in Slots :
          /\ edge_list[edge_link[s][e + 1] + 1].degen = 1
          /\ SlotLen(s, e) >= 4

\* C8: corner locations have the ids 0..nNode-1, every id of an
\* edge-interior location is smaller than every id of a strictly interior
\* location, and the ids in use are exactly 0..Ncoef-1.
C8_FixedIdOrder ==
    Indexed =>
        /\ {l_index[s][CornerLoc(s, n)] : s \in Surfaces, n \in Slots}
              = 0..(CountNodes(node_link) - 1)
        /\ \A s, t \in Surfaces : \A p \in EdgeLocs(s) : \A q \in InteriorLocs(t) :
              l_index[s][p] < l_index[t][q]
        /\ UsedIds = 0..(Ncoef - 1)

\* C8 witness: an indexed model with corner, edge-interior and strictly
\* interior locations and a shared edge
C8_Witness ==
    /\ Indexed /\ nSurf = 2
    /\ \E s \in Surfaces : InteriorLocs(s) # {} /\ EdgeLocs(s) # {}
    /\ \E e, f \in Slots : edge_link[1][e + 1] = edge_link[2][f + 1]

\* scan position of edge slot e of surface s, and the slots scanned before
SlotPos(s, e) == 4 * (s - 1) + e
SlotsBefore(s, e) ==
    {x \in Surfaces \X Slots : SlotPos(x[1], x[2]) < SlotPos(s, e)}

\* the slot that appended edge id x to the edge list: the first one linked
\* to it
Creator(x) ==
    LET k == Min({c \in 0..(4 * nSurf - 1) : edge_link[(c \div 4) + 1][(c % 4) + 1] = x})
    IN  <<(k \div 4) + 1, k % 4>>
EdgeMid(x) == surfs[Creator(x)[1]].mid[Creator(x)[2] + 1]

\* the edges in the list when slot (s,e) is scanned
ExistingEdges(s, e) == {edge_link[x[1]][x[2] + 1] : x \in SlotsBefore(s, e)}

PairFwd(s, e, x) ==
    SlotN1(s, e) = edge_list[x + 1].n1 /\ SlotN2(s, e) = edge_list[x + 1].n2
PairRev(s, e, x) ==
    SlotN2(s, e) = edge_list[x + 1].n1 /\ SlotN1(s, e) = edge_list[x + 1].n2

\* the listed edges with the endpoint pair of slot (s,e), in either
\* orientation, and a midpoint within edge_tol of the slot's
Candidates(s, e) ==
    {x \in ExistingEdges(s, e) :
        /\ PairFwd(s, e, x) \/ PairRev(s, e, x)
        /\ e_dist_lt(surfs[s].mid[e + 1], EdgeMid(x), src.edge_tol)}

\* slot (s,e) is linked as the rule states, given the edges cand that qualify
LinkedAsStated(s, e, cand) ==
    LET x == edge_link[s][e + 1]
    IN  /\ cand # {} =>
              /\ x \in cand
              /\ edge_dir[s][e + 1] =
                    (IF PairRev(s, e, x) /\ ~PairFwd(s, e, x) THEN 0 - 1 ELSE 1)
        /\ cand = {} =>
              /\ x \notin ExistingEdges(s, e)
              /\ edge_dir[s][e + 1] = 1

\* C4 (as stated): any two corners with the same node id are within
\* node_tol of each other.
C4_Orig_CornersPairwiseWithinTol ==
    src.op = "calc" =>
        \A s, t \in Surfaces : \A n, m \in Slots :
            node_link[s][n + 1] = node_link[t][m + 1]
            => e_dist_lt(surfs[s].corner[n + 1], surfs[t].corner[m + 1], src.node_tol)

\* C4 (amended): every corner is within node_tol of the first-scanned
\* corner that has its node id.
C4_CornersWithinTolOfFirst ==
    src.op = "calc" =>
        \A s \in Surfaces : \A n \in Slots :
            e_dist_lt(surfs[s].corner[n + 1], NodeRep(node_link[s][n + 1]), src.node_tol)

\* C4 witness: two corners at different places have the same node id
C4_Witness ==
    /\ src.op = "calc"
    /\ \E s, t \in Surfaces : \E n, m \in Slots :
          /\ node_link[s][n + 1] = node_link[t][m + 1]
          /\ surfs[s].corner[n + 1] # surfs[t].corner[m + 1]

\* C5 (as stated): a slot whose endpoint pair equals that of a listed edge,
\* in either orientation, with midpoints within edge_tol, is linked to such
\* an edge (direction -1 if the pair is reversed, +1 otherwise); a new edge
\* is appended only when there is none.
C5_Orig_LinkedToMatchingEdge ==
    src.op = "calc" =>
        \A s \in Surfaces : \A e \in Slots :
            LinkedAsStated(s, e, Candidates(s, e))

\* C5 (amended): the same for the slots whose two endpoint nodes differ; a
\* slot whose two endpoints are one node always appends a new edge.
C5_LinkedToMatchingEdge ==
    src.op = "calc" =>
        \A s \in Surfaces : \A e \in Slots :
            LinkedAsStated(s, e, IF SlotN1(s, e) # SlotN2(s, e)
                                 THEN Candidates(s, e) ELSE {})

\* C5 witness: one slot is linked reversed to an edge listed before, another
\* has both endpoints on one node
C5_Witness ==
    /\ src.op = "calc"
    /\ \E s \in Surfaces : \E e \in Slots :
          edge_dir[s][e + 1] = 0 - 1 /\ Candidates(s, e) # {}
    /\ \E s \in Surfaces : \E e \in Slots : SlotN1(s, e) = SlotN2(s, e)

C7_WriteReadRoundTrip ==
    src.op = "read" =>
        /\ edge_list = written.edge_list
        /\ node_link = written.node_link
        /\ edge_link = written.edge_link
        /\ edge_dir = written.edge_dir
        /\ src.indexed =>
              /\ Ncoef = written.Ncoef
              /\ g_index = written.g_index
              /\ l_index = written.l_index

\* C7 witness: a file read back with a degenerate edge, a reversed link and
\* a rebuilt index
C7_Witness ==
    /\ src.op = "read" /\ Indexed
    /\ \E x \in 1..Len(edge_list) : edge_list[x].degen = 1
    /\ \E s \in Surfaces : \E e \in Slots : edge_dir[s][e + 1] = 0 - 1

-----------------------------------------------------------------------------
(* Properties of the design-variable registrations *)

AllGroups == DV_listNormal \o DV_listLocal

\* C9: every global coefficient id is in the coef_list of at most one
\* Normal or Local design-variable group.
C9_Orig_OneGroupPerCoefficient ==
    \A a, b \in 1..Len(AllGroups) :
        a # b => Range(AllGroups[a].coef_list) \cap Range(AllGroups[b].coef_list) = {}

\* the last two calls registered a Normal group and then, with overwrite, a
\* Local group on the same surface
NormalThenLocalOverwrite ==
    /\ Len(calls) >= 2
    /\ calls[Len(calls) - 1].kind = "Normal"
    /\ calls[Len(calls)].kind = "Local"
    /\ calls[Len(calls)].overwrite
    /\ calls[Len(calls)].surf = calls[Len(calls) - 1].surf

\* C10: after a Normal group is registered on a set of ids and a Local
\* group is then registered on the same ids with overwrite, the Normal
\* group holds none of the ids and the Local group holds them all.
C10_Orig_OverwriteMovesIds ==
    NormalThenLocalOverwrite =>
        LET ids == Range(SurfaceCoefList(calls[Len(calls)].surf))
        IN  /\ \E n \in 1..Len(DV_listNormal) :
                  /\ DV_listNormal[n].name = calls[Len(calls) - 1].name
                  /\ Range(DV_listNormal[n].coef_list) \cap ids = {}
            /\ \E l \in 1..Len(DV_listLocal) :
                  /\ DV_listLocal[l].name = calls[Len(calls)].name
                  /\ ids \subseteq Range(DV_listLocal[l].coef_list)

-----------------------------------------------------------------------------
(* propagateKnotVectors, lines 1194-1273.  The knot vectors themselves     *)
(* (tu, tv, blendKnotVectors) are not part of the state modelled.          *)

\* lines 1197-1204: the control-point count of each design group, taken
\* from the first edge that carries a group id above all ids before it
RECURSIVE GroupCounts(_, _, _)
GroupCounts(i, nDG, ncoef) ==
    IF i = Len(edge_list) THEN ncoef
    ELSE IF edge_list[i + 1].dg > nDG
    THEN GroupCounts(i + 1, edge_list[i + 1].dg, Append(ncoef, edge_list[i + 1].Nctl))
    ELSE GroupCounts(i + 1, nDG, ncoef)

\* lines 1211-1216 and 1218-1222: the order is raised to the count, or to 4
\* when the count is above 4, when it is below the count
CapOrder(k, Nctl) ==
    IF k < Nctl THEN (IF Nctl > 4 THEN 4 ELSE Nctl) ELSE k

\* one pass of the loop of lines 1206-1224 over st = (surfs, order, err)
ResizeSurf(st, isurf, ncoef) ==
    IF st.err # "ok" THEN st
    ELSE
    LET dg_u == edge_list[edge_link[isurf + 1][1] + 1].dg
        dg_v == edge_list[edge_link[isurf + 1][3] + 1].dg
    IN  IF dg_u + 1 > Len(ncoef) \/ dg_u < -Len(ncoef)
        THEN [st EXCEPT !.err = "IndexError"]
        ELSE IF dg_v + 1 > Len(ncoef) \/ dg_v < -Len(ncoef)
        THEN [st EXCEPT !.surfs[isurf + 1].Nctlu = ncoef[dg_u + 1],
                        !.err = "IndexError"]
        ELSE [st EXCEPT !.surfs[isurf + 1].Nctlu = ncoef[dg_u + 1],
                        !.surfs[isurf + 1].Nctlv = ncoef[dg_v + 1],
                        !.order[isurf + 1].ku = CapOrder(@, ncoef[dg_u + 1]),
                        !.order[isurf + 1].kv = CapOrder(@, ncoef[dg_v + 1])]

RECURSIVE ResizeSurfs(_, _, _)
ResizeSurfs(st, isurf, ncoef) ==
    IF isurf = nSurf THEN st
    ELSE ResizeSurfs(ResizeSurf(st, isurf, ncoef), isurf + 1, ncoef)

\* the whole call: the sizes and orders, the patches recomputed on the new
\* sizes (line 1268), the index rebuilt (line 1271) and update() (line
\* 1272), which has only the push to do while no axis and no design
\* variable is registered
propagateKnotVectors ==
    LET rs == ResizeSurfs([surfs |-> surfs, order |-> order, err |-> "ok"], 0,
                          GroupCounts(0, -1, <<>>))
        sc == [s \in 1..nSurf |-> ControlNet(rs.surfs[s])]
        ix == SetEdgeConnectivityOn(
                  [s \in 1..nSurf |-> <<rs.surfs[s].Nctlu, rs.surfs[s].Nctlv>>],
                  sc, node_link, edge_list, edge_link, edge_dir)
    IN  IF rs.err # "ok"
        THEN [surfs |-> rs.surfs, order |-> rs.order, err |-> rs.err,
              surf_coef |-> surf_coef, Ncoef |-> Ncoef, g_index |-> g_index,
              l_index |-> l_index, coef |-> coef, set |-> src.indexed, pushed |-> FALSE]
        ELSE [surfs |-> rs.surfs, order |-> rs.order, err |-> ix.err,
              surf_coef |-> IF ix.err = "ok" THEN PushCoefOn(ix.coef, sc, ix.g_index)
                                             ELSE sc,
              Ncoef |-> ix.Ncoef, g_index |-> ix.g_index, l_index |-> ix.l_index,
              coef |-> ix.coef, set |-> ix.set, pushed |-> ix.err = "ok"]

PropagateKnotVectors ==
    /\ src.op # "none"
    /\ ref_axis = <<>> /\ DV_listGlobal = <<>>
    /\ DV_listNormal = <<>> /\ DV_listLocal = <<>>
    /\ \E r \in {propagateKnotVectors} :
          /\ surfs' = r.surfs
          /\ order' = r.order
          /\ surf_coef' = r.surf_coef
          /\ Ncoef' = r.Ncoef
          /\ g_index' = r.g_index
          /\ l_index' = r.l_index
          /\ coef' = r.coef
          /\ err' = r.err
          /\ src' = [src EXCEPT !.op = "propagate", !.indexed = r.set]
          /\ steps' = IF r.pushed THEN <<Step("push", 0)>> ELSE <<>>
    /\ UNCHANGED <<topoVars, file, dvVars, written, calls, ref_axis, ref_axis_con,
                   DV_listGlobal, DV_namesGlobal, dCoefdx, fit, jac, sub,
                   lift, ndv, dgrun, updates>>

\* the models whose knot vectors are propagated: two patches of any of the
\* small sizes, or one patch, which may have five control points a side
KnotGeometries == {<<A_quad, B_right>>, <<A_tip, B_right>>, <<A_quad>>}
KnotSizes == {<<2, 2>>, <<3, 3>>, <<4, 4>>, <<2, 3>>, <<3, 2>>}
KnotSizesOne == KnotSizes \cup {<<5, 3>>, <<3, 5>>}

InitKnot ==
    /\ \E g \in KnotGeometries :
       \E sz \in [1..Len(g) -> IF Len(g) = 1 THEN KnotSizesOne ELSE KnotSizes] :
          surfs = [s \in 1..Len(g) |-> WithSize(g[s], sz[s])]
    /\ Constructed

NextKnot == StitchOnce \/ PropagateKnotVectors

SpecKnot == InitKnot /\ [][NextKnot]_vars

-----------------------------------------------------------------------------
(* The unknowns of the fit: _initJacobian, lines 1542-1632.  An entry of   *)
(* dv_link is a list of lists: <<c>> for three free unknowns c, c+1, c+2,  *)
(* <<c, indB, indC>> for one blend unknown c between the coefficients indB *)
(* and indC.  The entry of a coefficient not met yet (-1 in the source) is *)
(* the empty list.                                                         *)

\* geo_utils: the two edge slots that meet at corner slot node of an N x M
\* grid, and the position of the corner along each
edgesFromNodeIndex(node, N, M) ==
    CASE node = 0 -> [edges |-> <<0, 2>>, indices |-> <<0, 0>>]
      [] node = 1 -> [edges |-> <<0, 3>>, indices |-> <<N - 1, 0>>]
      [] node = 2 -> [edges |-> <<1, 2>>, indices |-> <<0, M - 1>>]
      [] node = 3 -> [edges |-> <<1, 3>>, indices |-> <<N - 1, M - 1>>]

\* getSurfaceFromEdge, lines 1276-1286: the [isurf, iedge] whose link is
\* edge e, in the order of the double loop
getSurfaceFromEdge(e) ==
    LET hits == {k \in 0..(4 * nSurf - 1) : edge_link[(k \div 4) + 1][(k % 4) + 1] = e}
        RECURSIVE Listed_(_)
        Listed_(S) == IF S = {} THEN <<>>
                      ELSE <<<<Min(S) \div 4, Min(S) % 4>>>> \o Listed_(S \ {Min(S)})
    IN  Listed_(hits)

\* _getTwoIndiciesOnEdge, lines 1646-1671, on interpolant = l_index[surf]:
\* the ids at position index of edge slot iedge and next to it inside the
\* patch; -1 for an index outside the grid
getTwoIndiciesOnEdge(surf, index, iedge, dirs) ==
    LET N == surfs[surf + 1].Nctlu
        M == surfs[surf + 1].Nctlv
        at == IF dirs[iedge + 1] = 1 THEN index
              ELSE (IF iedge \in {0, 1} THEN N ELSE M) - index - 1
        a == CASE iedge = 0 -> <<at, 0>>
               [] iedge = 1 -> <<at, M - 1>>
               [] iedge = 2 -> <<0, at>>
               [] iedge = 3 -> <<N - 1, at>>
        b == CASE iedge = 0 -> <<at, 1>>
               [] iedge = 1 -> <<at, M - 2>>
               [] iedge = 2 -> <<1, at>>
               [] iedge = 3 -> <<N - 2, at>>
        get(p) == IF p \in DOMAIN l_index[surf + 1] THEN l_index[surf + 1][p] ELSE -1
    IN  <<get(a), get(b)>>

\* dv_counter += 1, lines 1577 and 1610: the columns of one blend unknown
BlendWidth == 1

\* lines 1562-1577 and 1595-1610: the blend entry of a coefficient at
\* position index of the continuous edge e, with c for dv_counter; "none"
\* when the edge has fewer than two surfaces (surfaces[1] does not exist)
BlendEntry(e, index, c) ==
    LET surfaces == getSurfaceFromEdge(e)
    IN  IF Len(surfaces) < 2 THEN <<>>
        ELSE LET indB == getTwoIndiciesOnEdge(surfaces[1][1], index, surfaces[1][2],
                                              edge_dir[surfaces[1][1] + 1])[2]
                 indC == getTwoIndiciesOnEdge(surfaces[2][1], index, surfaces[2][2],
                                              edge_dir[surfaces[2][1] + 1])[2]
             IN  <<c, indB, indC>>

\* the corner branch, lines 1587-1618, for the two edges of the corner from
\* position ii of the loop on; st = (dv_link, dv_counter, err), id the
\* coefficient
RECURSIVE CornerEntries(_, _, _, _, _)
CornerEntries(st, id, isurf, en, ii) ==
    IF ii = 2 \/ st.err # "ok" THEN st
    ELSE LET e == edge_link[isurf + 1][en.edges[ii + 1] + 1]
         IN  IF edge_list[e + 1].cont # 1
             THEN CornerEntries(st, id, isurf, en, ii + 1)
             ELSE LET b == BlendEntry(e, en.indices[ii + 1], st.dv_counter)
                  IN  IF b = <<>>
                      THEN [st EXCEPT !.err = "IndexError"]
                      ELSE CornerEntries(
                               [st EXCEPT !.dv_link[id + 1] = Append(@, b),
                                          !.dv_counter = @ + BlendWidth],
                               id, isurf, en, ii + 1)

\* one (isurf, i, j) of the loops of lines 1549-1623
LinkStep(st, cell) ==
    LET isurf == cell[1]
        i == cell[2]
        j == cell[3]
        N == surfs[isurf + 1].Nctlu
        M == surfs[isurf + 1].Nctlv
        pos == indexPosition(i, j, N, M)
        id == l_index[isurf + 1][<<i, j>>]
        free == [st EXCEPT !.dv_link[id + 1] = << <<st.dv_counter>> >>,
                           !.dv_counter = @ + 3]
    IN  IF st.err # "ok" THEN st
        ELSE IF pos.type = 0 THEN free
        ELSE IF st.dv_link[id + 1] # <<>> THEN st
        ELSE IF pos.type = 1
        THEN LET e == edge_link[isurf + 1][pos.edge + 1]
             IN  IF edge_list[e + 1].cont = 1
                 THEN LET b == BlendEntry(e, pos.index, st.dv_counter)
                      IN  IF b = <<>> THEN [st EXCEPT !.err = "IndexError"]
                          ELSE [st EXCEPT !.dv_link[id + 1] = <<b>>,
                                          !.dv_counter = @ + BlendWidth]
                 ELSE free
        ELSE LET c == CornerEntries(st, id, isurf, edgesFromNodeIndex(pos.node, N, M), 0)
             IN  IF c.err = "ok" /\ c.dv_link[id + 1] = <<>>
                 THEN free
                 ELSE c

RECURSIVE LinkSteps(_, _)
LinkSteps(st, cells) ==
    IF cells = <<>> THEN st ELSE LinkSteps(LinkStep(st, Head(cells)), Tail(cells))

\* _initJacobian(Npt): dv_link and nCols = dv_counter; the matrix itself is
\* not part of the state
initJacobian ==
    LET r == LinkSteps([dv_link |-> [k \in 1..Len(coef) |-> <<>>],
                        dv_counter |-> 0, err |-> "ok"],
                       CellsOf(0, SurfSizes))
    IN  [dv_link |-> r.dv_link, nCols |-> r.dv_counter, err |-> r.err]

\* a direct call of _initJacobian on the indexed model
InitJacobian ==
    /\ src.indexed /\ err = "ok"
    /\ \E r \in {initJacobian} :
          /\ jac' = [dv_link |-> r.dv_link, nCols |-> r.nCols]
          /\ err' = r.err
    /\ UNCHANGED <<surfs, topoVars, indexVars, file, dvVars, src, written,
                   calls, surf_coef, coef, axisVars, order, fit, sub, lift, ndv, dgrun, updates>>

\* the edges that join two patch edges: the ones continuity can be asked of
JoinEdges == {e \in 0..(Len(edge_list) - 1) : Len(getSurfaceFromEdge(e)) = 2}

\* the user asks for C1 continuity across an edge: the cont column of its
\* line in the connectivity file, field 3 of write_info's line, is set to 1
EditContinuity ==
    /\ file # <<>>
    /\ src.indexed /\ err = "ok"
    /\ \E e \in JoinEdges :
          /\ ParseInt(file[3 + e][3 + 1]) = 0
          /\ file' = [file EXCEPT ![3 + e][3 + 1] = Pad(2) \o Fmt3d(1) \o Pad(1)]
    /\ UNCHANGED <<surfs, fitVars, topoVars, indexVars, dvVars, src, err, written,
                   calls, surf_coef, coef, axisVars>>

\* the models the table is built for: two squares side by side in every
\* orientation of the second, and three squares around the corner (4,4)
JacGeometries ==
    {<<A_quad, Orient(o, B_right)>> : o \in Orientations}
    \cup {<<A_quad, B_right, C_top>>, <<A_quad>>}
JacSizes == {<<2, 2>>, <<3, 3>>, <<4, 4>>}

InitJac ==
    /\ \E g \in JacGeometries : \E sz \in JacSizes :
          /\ Len(g) = 3 => sz # <<4, 4>>
          /\ surfs = [s \in 1..Len(g) |-> WithSize(g[s], sz)]
    /\ Constructed

NextJac ==
    \/ StitchOnce
    \/ WriteEdgeConnectivity
    \/ EditContinuity
    \/ ReadEdgeConnectivity
    \/ InitJacobian

SpecJac == InitJac /\ [][NextJac]_vars

-----------------------------------------------------------------------------
(* The lifting-surface constructor, _init_lifting_surface (lines 384-765), *)
(* without breaks and without a tip.  Of the arrays it is given the model  *)
(* keeps the lengths: len(xsections), len(scale), offset.shape[0],         *)
(* Xsec.shape[0], rot.shape[0].                                            *)

MaxSections == 4    \* each array has 2..MaxSections entries

\* len(xsections)==len(scale)==offset.shape[0], line 397
LengthsAgree(xsections, scale, offset, Xsec, rot) ==
    xsections = scale /\ scale = offset

\* the loop of lines 467-492 over the naf sections: rot[i,..] is read at
\* lines 481-485 and Xsec[i,:] at line 491
SectionLoop(naf, Xsec, rot) ==
    IF \E i \in 0..(naf - 1) : i >= rot \/ i >= Xsec THEN "IndexError" ELSE "ok"

\* the upper and the lower surface (lines 609-619): Nctlv = nsections[0],
\* the number of sections; chord-wise the patches have 4 control points
LiftingSurfaces(naf) ==
    <<WithSize(A_quad, <<4, naf>>), WithSize(A_quad, <<4, naf>>)>>

InitLiftingSurface(xsections, scale, offset, Xsec, rot) ==
    /\ lift = <<>>
    /\ lift' = <<xsections, scale, offset, Xsec, rot>>
    /\ IF ~LengthsAgree(xsections, scale, offset, Xsec, rot)
       THEN err' = "SystemExit" /\ UNCHANGED <<surfs, surf_coef, order>>
       ELSE IF SectionLoop(xsections, Xsec, rot) # "ok"
       THEN err' = SectionLoop(xsections, Xsec, rot)
            /\ UNCHANGED <<surfs, surf_coef, order>>
       ELSE /\ err' = "ok"
            /\ surfs' = LiftingSurfaces(xsections)
            /\ surf_coef' = [s \in 1..2 |-> ControlNet(LiftingSurfaces(xsections)[s])]
            /\ order' = [s \in 1..2 |-> DefaultOrder(LiftingSurfaces(xsections)[s])]
    /\ UNCHANGED <<topoVars, indexVars, file, dvVars, src, written, calls, coef,
                   axisVars, fit, jac, sub, ndv, dgrun, updates>>

Construct ==
    \E xsections, scale, offset, Xsec, rot \in 2..MaxSections :
        InitLiftingSurface(xsections, scale, offset, Xsec, rot)

\* before the constructor has run there is no surface
InitLift == surfs = <<>> /\ Constructed

NextLift == Construct

SpecLift == InitLift /\ [][NextLift]_vars

-----------------------------------------------------------------------------
(* Sub-topologies: getReducedSetConnectivity, lines 1055-1108 *)

\* variant: the values are renumbered from the largest down
RenumberLoop_descending(i, a, uniq) ==
    LET RECURSIVE Down(_, _)
        Down(k, b) ==
            IF k < 0 THEN b
            ELSE Down(k - 1, [j \in 1..Len(b) |-> IF b[j] = uniq[k + 1] THEN k ELSE b[j]])
    IN  Down(Len(uniq) - 1, a)

\* the renumbering loops of lines 1079-1093, from pass i on: every entry
\* equal to uniq[i] becomes i
RECURSIVE RenumberLoop(_, _, _)
RenumberLoop(i, a, uniq) ==
    IF i = Len(uniq) THEN a
    ELSE RenumberLoop(i + 1,
                      [j \in 1..Len(a) |-> IF a[j] = uniq[i + 1] THEN i ELSE a[j]],
                      uniq)

\* flatten() of a k x 4 array and reshape((k,4)) of the flat array
Flat4(rows) == [j \in 1..(4 * Len(rows)) |-> rows[((j - 1) \div 4) + 1][((j - 1) % 4) + 1]]
Reshape4(a) == [ii \in 1..(Len(a) \div 4) |-> [c \in 1..4 |-> a[4 * (ii - 1) + c]]]

getReducedSetConnectivity(surface_list) ==
    LET rows(link) == [ii \in 1..Len(surface_list) |-> link[surface_list[ii] + 1]]
        flat_nodes == Flat4(rows(node_link))
        flat_edges == Flat4(rows(edge_link))
        \* sorted(unique(...)), lines 1074-1075
        unique_node_list == SortedSeq(Range(flat_nodes))
        unique_edge_list == SortedSeq(Range(flat_edges))
    IN  [node_link |-> Reshape4(RenumberLoop(0, flat_nodes, unique_node_list)),
         edge_list |-> [i \in 1..Len(unique_edge_list) |->
                           edge_list[unique_edge_list[i] + 1]],
         edge_link |-> Reshape4(RenumberLoop(0, flat_edges, unique_edge_list)),
         edge_dir  |-> rows(edge_dir)]

\* the sub-topology of surface_list is taken and numbered:
\* calcGlobalNumbering(sizes, surface_list, *getReducedSetConnectivity(surface_list))
\* with the sizes of the listed patches
NumberSubset(surface_list) ==
    /\ src.indexed /\ err = "ok"
    /\ \E t \in {getReducedSetConnectivity(surface_list)} :
       \E r \in {calcGlobalNumbering(
                    [ii \in 1..Len(surface_list) |-> SurfSizes[surface_list[ii] + 1]],
                    surface_list, t.node_link, t.edge_list, t.edge_link, t.edge_dir)} :
          sub' = [list |-> surface_list, node_link |-> t.node_link,
                  edge_list |-> t.edge_list, edge_link |-> t.edge_link,
                  edge_dir |-> t.edge_dir, counter |-> r.counter,
                  g_index |-> r.g_index, l_index |-> r.l_index, err |-> r.err]
    /\ UNCHANGED <<surfs, topoVars, indexVars, file, dvVars, src, err, written,
                   calls, surf_coef, coef, axisVars, order, fit, jac, lift, ndv, dgrun, updates>>

\* the lists a caller may pass: some of the patches, each once, in any order
RECURSIVE Arrangements(_)
Arrangements(S) ==
    {<<>>} \cup UNION {{<<x>> \o t : t \in Arrangements(S \ {x})} : x \in S}
SurfaceLists == Arrangements(0..(nSurf - 1)) \ {<<>>}

NumberSomeSubset == \E surface_list \in SurfaceLists : NumberSubset(surface_list)

SubGeometries ==
    {<<A_quad, Orient(o, B_right)>> : o \in Orientations}
    \cup {<<A_tip, B_right>>, <<A_quad, B_tip>>, <<A_quad, B_far>>,
          <<A_quad, B_right, C_top>>}
SubSizes == {<<2, 2>>, <<3, 3>>}

InitSub ==
    /\ \E g \in SubGeometries : \E sz \in SubSizes :
          surfs = [s \in 1..Len(g) |-> WithSize(g[s], sz)]
    /\ Constructed

NextSub == StitchOnce \/ NumberSomeSubset

SpecSub == InitSub /\ [][NextSub]_vars

-----------------------------------------------------------------------------
(* fitSurfaces, lines 1303-1455, one step per pass of its loop body.  The  *)
(* Jacobian and the vectors of the least-squares problem are not part of   *)
(* the state modelled; of a solve the model keeps the residual it leaves.  *)

nIter == 6

\* the residual lstsq leaves (the rms of line 1488): zero, or not
Residuals == {0, 1}

\* the setup of lines 1307-1366, up to the first pass of the loop
FitStart ==
    /\ src.indexed /\ err = "ok"
    /\ fit.pc \in {"idle", "done"}
    /\ \E r \in {initJacobian} :
          /\ r.err = "ok"
          /\ jac' = [dv_link |-> r.dv_link, nCols |-> r.nCols]
    /\ fit' = [pc |-> IF 0 < nIter THEN "assemble" ELSE "done",
               iter |-> 0, solves |-> 0, rms |-> <<>>]
    /\ UNCHANGED <<surfs, topoVars, indexVars, file, dvVars, src, err, written,
                   calls, surf_coef, coef, axisVars, order, sub, lift, ndv, dgrun, updates>>

\* lines 1369-1443: the Jacobian of pass iter is assembled.  _initJacobian
\* (line 1370) returns the table of line 1317 again: the topology, the
\* index and the number of coefficients it reads have not changed.
FitAssemble ==
    /\ fit.pc = "assemble"
    /\ fit' = [fit EXCEPT !.pc = "solve"]
    /\ UNCHANGED <<surfs, topoVars, indexVars, file, dvVars, src, err, written,
                   calls, surf_coef, coef, axisVars, order, jac, sub, lift, ndv, dgrun, updates>>

\* variant: the loop is left as soon as a solve leaves no residual
AfterSolve_untilConverged(iter, rms) ==
    IF rms = 0 \/ iter + 1 >= nIter THEN "done" ELSE "assemble"

\* for iter in xrange(nIter), line 1368: where the call is after the solve
\* of pass iter
AfterSolve(iter, rms) ==
    IF iter + 1 < nIter THEN "assemble" ELSE "done"

\* line 1453: _solve of pass iter (lines 1463-1530).  The patches modelled
\* are reproduced exactly by their control nets, so the solution written to
\* self.coef is the coefficient vector itself.
FitSolve ==
    /\ fit.pc = "solve"
    /\ \E r \in Residuals :
          fit' = [pc |-> AfterSolve(fit.iter, r), iter |-> fit.iter + 1,
                  solves |-> fit.solves + 1, rms |-> Append(fit.rms, r)]
    /\ UNCHANGED <<surfs, topoVars, indexVars, file, dvVars, src, err, written,
                   calls, surf_coef, coef, axisVars, order, jac, sub, lift, ndv, dgrun, updates>>

\* the model the fit runs on: the two squares, each a 4 x 4 net of order 4,
\* the order the four-wide index lists of lines 1388 and 1393 are written for
InitFit ==
    /\ surfs = <<WithSize(A_quad, <<4, 4>>), WithSize(B_right, <<4, 4>>)>>
    /\ Constructed

NextFit == StitchOnce \/ FitStart \/ FitAssemble \/ FitSolve

\* a call that has started goes on: the loop body has no blocking step
SpecFit ==
    InitFit /\ [][NextFit]_vars /\ WF_vars(FitAssemble) /\ WF_vars(FitSolve)

-----------------------------------------------------------------------------
(* The update protocol *)

\* the log is that of an update() that ran to its end
UpdateDone == steps # <<>> /\ steps[Len(steps)].op = "push" /\ err = "ok"

\* the stage of update() a logged step belongs to
Phase(st) ==
    CASE st.op = "global" -> 1
      [] st.op \in {"parent", "anchor", "child", "axis"} -> 2
      [] st.op = "coef" -> 3
      [] st.op = "normal" -> 4
      [] st.op = "local" -> 5
      [] st.op = "push" -> 6
      [] OTHER -> 0

\* the indices of the logged steps of kind op, in the order they ran
Ran(op) == [k \in 1..Len(SelectSeq(steps, LAMBDA st : st.op = op)) |->
               SelectSeq(steps, LAMBDA st : st.op = op)[k].i]

\* the positions of the log at which step (op, i) ran
At(op, i) == {k \in 1..Len(steps) : steps[k] = Step(op, i)}

UpTo(n) == [k \in 1..n |-> k - 1]

Unconnected ==
    {r \in 0..(Len(ref_axis) - 1) :
        \A c \in 1..Len(ref_axis_con) :
            ref_axis_con[c][1] # r /\ ref_axis_con[c][2] # r}

\* the axes whose update() ran during the logged call
UpdatedAxes ==
    {steps[k].i : k \in {k \in 1..Len(steps) : steps[k].op = "axis"}}
    \cup {ref_axis_con[steps[k].i + 1][1] :
            k \in {k \in 1..Len(steps) : steps[k].op = "parent"}}
    \cup {ref_axis_con[steps[k].i + 1][2] :
            k \in {k \in 1..Len(steps) : steps[k].op = "child"}}

\* C12: every reference axis that takes part in no connection is updated
\* directly during every update(), whether or not other axes are connected.
C12_Orig_UnconnectedAxesUpdated ==
    UpdateDone => Unconnected \subseteq UpdatedAxes

\* C13: after update() returns, every control point (i,j) of every patch
\* equals the coefficient coef[l_index[patch][i,j]] (its real part).
C13_PatchesMatchCoef ==
    UpdateDone =>
        \A s \in Surfaces : \A p \in DOMAIN surf_coef[s] :
            surf_coef[s][p] = RealPt(coef[l_index[s][p] + 1])

\* an update that moved a control point of a patch away from where the
\* patch was loaded
C13_Witness ==
    /\ UpdateDone
    /\ \E s \in Surfaces : \E p \in DOMAIN surf_coef[s] :
          surf_coef[s][p] # ControlNet(surfs[s])[p]

\* Global variable g translates the base point of its axis, no other Global
\* variable acts on that axis, and the axis is free: it is the child of no
\* connection and its end point is not pinned
FreeTranslation(g) ==
    /\ DV_listGlobal[g].function.kind = "translate"
    /\ \A h \in 1..Len(DV_listGlobal) :
          h # g => DV_listGlobal[h].function.axis # DV_listGlobal[g].function.axis
    /\ \A c \in 1..Len(ref_axis_con) :
          ref_axis_con[c][2] # DV_listGlobal[g].function.axis
    /\ ref_axis[DV_listGlobal[g].function.axis + 1].con_type # "full"

\* the coefficients that follow axis a: linked to it, to no axis after it,
\* and moved by no Local design variable
FollowersOf(a) ==
    {id \in Range(ref_axis[a + 1].coef_list) :
        /\ \A b \in (a + 2)..Len(ref_axis) : id \notin Range(ref_axis[b].coef_list)
        /\ \A l \in 1..Len(DV_listLocal) : \A i \in 1..Len(DV_listLocal[l].coef_list) :
              DV_listLocal[l].coef_list[i] = id =>
                  \A d \in 1..3 : DV_listLocal[l].value[3 * (i - 1) + d] = Cx(0)}

\* the step is the first update() of the model, run to its end
FirstUpdate == steps = <<>> /\ dCoefdx = NoJacobian /\ UpdateDone'

\* C14: with rotations zero and scales one, a Global design variable that
\* translates the base point of an axis by v, followed by update(), shifts
\* every coefficient linked to that axis by exactly v.
C14_Orig_TranslationShiftsLinked ==
    [][FirstUpdate =>
          \A g \in 1..Len(DV_listGlobal) :
              FreeTranslation(g) =>
                  \A id \in FollowersOf(DV_listGlobal[g].function.axis) :
                      coef'[id + 1] = VAdd(coef[id + 1],
                                           <<DV_listGlobal[g].value[1],
                                             DV_listGlobal[g].value[2],
                                             DV_listGlobal[g].value[3]>>)]_vars

-----------------------------------------------------------------------------
(* The complex-step Jacobian *)

\* the step is a calcCtlDeriv() that returned
CtlDerivReturns == dCoefdx = NoJacobian /\ dCoefdx' # NoJacobian /\ err' = "ok"

\* the positions of the log at which a component was perturbed, restored
Perturbed(log) == {k \in 1..Len(log) : log[k].op = "perturb"}
Restored(log) == {k \in 1..Len(log) : log[k].op = "restore"}

\* the pipeline ran between positions k and r of the log with the Local and
\* Normal groups disabled and without a push: every Global variable in
\* order, no other perturbation
RerunBetween(log, k, r) ==
    /\ \A m \in (k + 1)..(r - 1) :
          log[m].op \notin {"perturb", "restore", "normal", "local", "push"}
    /\ [m \in 1..Len(DV_listGlobal) |-> log[k + m]]
          = [m \in 1..Len(DV_listGlobal) |-> Step("global", m - 1)]

\* C15: calcCtlDeriv perturbs one component of one active (useit) Global
\* design variable at a time, re-runs the update pipeline with the Local
\* stage disabled, and restores the component before the next one is
\* perturbed; when it returns every Global value equals its value before
\* the call, and no variable with useit false was perturbed.
C15_PerturbOneAndRestore ==
    [][CtlDerivReturns =>
          /\ [g \in 1..Len(DV_listGlobal') |-> DV_listGlobal'[g].value]
                = [g \in 1..Len(DV_listGlobal) |-> DV_listGlobal[g].value]
          /\ \A k \in Perturbed(steps') : DV_listGlobal[steps'[k].i + 1].useit
          /\ \A g \in 1..Len(DV_listGlobal) :
                DV_listGlobal[g].useit =>
                    \A jj \in 0..(DV_listGlobal[g].nVal - 1) :
                        Cardinality({k \in Perturbed(steps') :
                            steps'[k].i = g - 1 /\ steps'[k].j = jj}) = 1
          /\ \A k \in Perturbed(steps') :
                \E r \in Restored(steps') :
                    /\ k < r
                    /\ steps'[r].i = steps'[k].i /\ steps'[r].j = steps'[k].j
                    /\ RerunBetween(steps', k, r)]_vars

\* a calcCtlDeriv() that returned, over a Global variable of three
\* components in use and one not in use
C15_Witness ==
    /\ dCoefdx # NoJacobian /\ err = "ok"
    /\ \E k \in Perturbed(steps) : steps[k].j = 2
    /\ \E g \in 1..Len(DV_listGlobal) : ~DV_listGlobal[g].useit

-----------------------------------------------------------------------------
(* Knot-vector propagation *)

\* the last call was a propagateKnotVectors() that returned
Propagated == src.op = "propagate" /\ err = "ok"

\* C16: after propagateKnotVectors every patch has ku <= Nctlu and
\* kv <= Nctlv (the order is capped at 4 or at the control-point count).
C16_Orig_OrderWithinCount ==
    Propagated =>
        \A s \in 1..nSurf :
            /\ order[s].ku <= surfs[s].Nctlu
            /\ order[s].kv <= surfs[s].Nctlv

-----------------------------------------------------------------------------
(* Failures *)

\* the step is a call that ended in the assertion of line 1844
FullRefused == err' = "AssertionError"

\* C17: addRefAxisCon with con_type 'full' on a child axis that does not
\* have exactly two stations fails before any state is changed: the child's
\* base_point_s, base_point_D and con_type and the connection list are as
\* before the call.
C17_Orig_RefusedFullLeavesState ==
    [][FullRefused =>
          /\ ref_axis_con' = ref_axis_con
          /\ \A a \in 1..Len(ref_axis) :
                /\ ref_axis'[a].base_point_s = ref_axis[a].base_point_s
                /\ ref_axis'[a].base_point_D = ref_axis[a].base_point_D
                /\ ref_axis'[a].con_type = ref_axis[a].con_type]_vars

\* the step is a calcEdgeConnectivity or readEdgeConnectivity that raised
RebuildFailed == err' # "ok" /\ src'.op \in {"calc", "read"} /\ file' = file

\* C18: a rebuild of the topology and the index is all-or-nothing: when
\* calcEdgeConnectivity or readEdgeConnectivity fails, the stored topology
\* and the index (Ncoef, g_index, l_index, coef) are as before the call.
C18_Orig_FailedRebuildLeavesState ==
    [][RebuildFailed =>
          /\ <<node_link, edge_list, edge_link, edge_dir>>'
                = <<node_link, edge_list, edge_link, edge_dir>>
          /\ <<Ncoef, g_index, l_index, coef>>' = <<Ncoef, g_index, l_index, coef>>]_vars

-----------------------------------------------------------------------------
(* Design-group propagation *)

\* addDGEdge(i) stamps the control-point count on edge i when it runs
\* (lines 885-888), so the edges propagation ran from are those with a count
PropagatedFrom(e) == edge_list[e].Nctl # 0

\* C19: a degenerate edge receives a design group id but never propagates
\* it, and propagation stops at degenerate edges only: every non-degenerate
\* edge that receives a group propagates it.
C19_Orig_StopsAtDegenerateOnly ==
    \A e \in 1..Len(edge_list) :
        /\ edge_list[e].dg >= 0
        /\ edge_list[e].degen = 1 => ~PropagatedFrom(e)
        /\ edge_list[e].degen = 0 => PropagatedFrom(e)

-----------------------------------------------------------------------------
(* The global fit *)

-----------------------------------------------------------------------------
(* The fitter's table of unknowns *)

\* the columns an entry of dv_link stands for
ColumnsOf(entry) ==
    UNION {IF Len(entry[k]) = 1 THEN entry[k][1]..(entry[k][1] + 2) ELSE {entry[k][1]}
           : k \in 1..Len(entry)}
WidthOf(entry) ==
    SumSeq([k \in 1..Len(entry) |-> IF Len(entry[k]) = 1 THEN 3 ELSE 1])
ThreeFree(entry) == Len(entry) = 1 /\ Len(entry[1]) = 1
Blends(entry, n) == Len(entry) = n /\ \A k \in 1..n : Len(entry[k]) = 3

\* the grid positions of coefficient id, classified
TypesOf(id) ==
    {indexPosition(loc[2], loc[3], surfs[loc[1] + 1].Nctlu, surfs[loc[1] + 1].Nctlv)
       : loc \in Range(g_index[id + 1])}
\* the patch edges coefficient id lies inside of
EdgesOf(id) ==
    {edge_link[loc[1] + 1][indexPosition(loc[2], loc[3], surfs[loc[1] + 1].Nctlu,
                                         surfs[loc[1] + 1].Nctlv).edge + 1]
       : loc \in {l \in Range(g_index[id + 1]) :
                    indexPosition(l[2], l[3], surfs[l[1] + 1].Nctlu,
                                  surfs[l[1] + 1].Nctlv).type = 1}}
\* the C1 edges that end at the corner coefficient id
C1EdgesAt(id) ==
    {e \in 0..(Len(edge_list) - 1) :
        /\ edge_list[e + 1].cont = 1
        /\ id \in {edge_list[e + 1].n1, edge_list[e + 1].n2}}

\* _initJacobian has just returned a table
TableBuilt == jac' # jac /\ err' = "ok"

\* one entry per coefficient, over disjoint column ranges that cover
\* 0..nCols-1
TableCovers ==
    /\ Len(jac.dv_link) = Ncoef
    /\ \A id \in 0..(Ncoef - 1) :
          /\ jac.dv_link[id + 1] # <<>>
          /\ Cardinality(ColumnsOf(jac.dv_link[id + 1])) = WidthOf(jac.dv_link[id + 1])
    /\ \A a, b \in 0..(Ncoef - 1) :
          a # b => ColumnsOf(jac.dv_link[a + 1]) \cap ColumnsOf(jac.dv_link[b + 1]) = {}
    /\ UNION {ColumnsOf(jac.dv_link[id + 1]) : id \in 0..(Ncoef - 1)} = 0..(jac.nCols - 1)

\* interior and C0-edge coefficients are free, C1-edge coefficients blend
TableInteriorAndEdges ==
    \A id \in 0..(Ncoef - 1) :
        LET entry == jac.dv_link[id + 1]
        IN  /\ (\E t \in TypesOf(id) : t.type = 0) => ThreeFree(entry)
            /\ (\E t \in TypesOf(id) : t.type = 1) =>
                  IF \E e \in EdgesOf(id) : edge_list[e + 1].cont = 1
                  THEN Blends(entry, 1)
                  ELSE ThreeFree(entry)

\* a corner coefficient has one blend unknown per C1 edge that ends at it,
\* and is free when there is none
TableCorners ==
    \A id \in 0..(Ncoef - 1) :
        (\E t \in TypesOf(id) : t.type = 2) =>
            IF C1EdgesAt(id) = {}
            THEN ThreeFree(jac.dv_link[id + 1])
            ELSE Blends(jac.dv_link[id + 1], Cardinality(C1EdgesAt(id)))

\* C21: in the table _initJacobian returns every coefficient id has one
\* entry; an unconstrained coefficient has 3 consecutive unknowns, an
\* edge-interior coefficient of a C1 edge 1 blend unknown, a corner one blend
\* unknown per incident C1 edge or 3 free unknowns without one; the column
\* ranges are disjoint and cover 0..nCols-1.
C21_Orig_LinkTable ==
    [][TableBuilt => (TableCovers /\ TableInteriorAndEdges /\ TableCorners)']_vars

-----------------------------------------------------------------------------
(* Sub-topologies and their numbering *)

\* a sub-topology has been taken and numbered
SubTaken == sub # NoSub

\* the grid locations of the listed patches
SubLocs ==
    {<<sub.list[ii], p[1], p[2]>> :
        ii \in 1..Len(sub.list),
        p \in (0..(MaxNctl - 1)) \X (0..(MaxNctl - 1))}
    \cap {loc \in (0..(nSurf - 1)) \X (0..(MaxNctl - 1)) \X (0..(MaxNctl - 1)) :
             loc[2] < surfs[loc[1] + 1].Nctlu /\ loc[3] < surfs[loc[1] + 1].Nctlv}

\* the number of times location loc is listed in the subset's g_index
SubListings(loc) ==
    SumSeq([g \in 1..Len(sub.g_index) |->
              Cardinality({k \in 1..Len(sub.g_index[g]) : sub.g_index[g][k] = loc})])
SubIdOf(loc) ==
    CHOOSE g \in 1..Len(sub.g_index) : loc \in Range(sub.g_index[g])

\* C22: calcGlobalNumbering on a subset surface_list and the sub-topology of
\* getReducedSetConnectivity numbers the subset: every location of a listed
\* patch is in exactly one location list, and two locations share an id
\* exactly when they share one in the numbering of the full model.
C22_Orig_SubsetNumbered ==
    SubTaken =>
        /\ sub.err = "ok"
        /\ \A loc \in SubLocs : SubListings(loc) = 1
        /\ \A a, b \in SubLocs :
              (SubIdOf(a) = SubIdOf(b))
                 <=> (l_index[a[1] + 1][<<a[2], a[3]>>] = l_index[b[1] + 1][<<b[2], b[3]>>])

\* the (row, slot) pairs of the reduced link arrays
SubSlots == (1..Len(sub.list)) \X (1..4)
OldNode(x) == node_link[sub.list[x[1]] + 1][x[2]]
OldEdge(x) == edge_link[sub.list[x[1]] + 1][x[2]]
NewNode(x) == sub.node_link[x[1]][x[2]]
NewEdge(x) == sub.edge_link[x[1]][x[2]]

\* C26: getReducedSetConnectivity renumbers the nodes and the edges of the
\* listed surfaces to 0..k-1 in their old order, two slots share a new id
\* exactly when they shared the old one, new_edge_list[i] is the edge object
\* new id i stands for, and the directions are copied.
C26_ReducedRenumbering ==
    SubTaken =>
        /\ {NewNode(x) : x \in SubSlots} = 0..(Cardinality({OldNode(x) : x \in SubSlots}) - 1)
        /\ {NewEdge(x) : x \in SubSlots} = 0..(Cardinality({OldEdge(x) : x \in SubSlots}) - 1)
        /\ \A x, y \in SubSlots :
              /\ (NewNode(x) < NewNode(y)) <=> (OldNode(x) < OldNode(y))
              /\ (NewNode(x) = NewNode(y)) <=> (OldNode(x) = OldNode(y))
              /\ (NewEdge(x) < NewEdge(y)) <=> (OldEdge(x) < OldEdge(y))
              /\ (NewEdge(x) = NewEdge(y)) <=> (OldEdge(x) = OldEdge(y))
        /\ Len(sub.edge_list) = Cardinality({OldEdge(x) : x \in SubSlots})
        /\ \A x \in SubSlots : sub.edge_list[NewEdge(x) + 1] = edge_list[OldEdge(x) + 1]
        /\ \A ii \in 1..Len(sub.list) : sub.edge_dir[ii] = edge_dir[sub.list[ii] + 1]

\* a sub-topology that leaves out the first patch of a model whose patches
\* share nodes and edges: the ids kept are not the first ones
C26_Witness ==
    /\ SubTaken
    /\ 0 \notin Range(sub.list)
    /\ \E x \in SubSlots : NewNode(x) # OldNode(x)
    /\ \E x \in SubSlots : NewEdge(x) # OldEdge(x)
    /\ \E x, y \in SubSlots : x[1] # y[1] /\ NewEdge(x) = NewEdge(y)

-----------------------------------------------------------------------------
(* The lifting-surface constructor *)

\* C23: a lifting-surface model whose arrays xsections, scale, offset, Xsec
\* and rot are not all of one length is rejected with a fatal error before
\* any surface is built: the surface list stays empty.
C23_Orig_MismatchRejected ==
    (lift # <<>> /\ \E a, b \in 1..5 : lift[a] # lift[b])
        => (err # "ok" /\ surfs = <<>>)

-----------------------------------------------------------------------------
(* The sizes and the columns of the design-variable vector *)

\* the counts of the ordered design-variable vector
SumGlobal ==
    SumSeq([i \in 1..Len(DV_listGlobal) |->
               IF DV_listGlobal[i].useit THEN DV_listGlobal[i].nVal ELSE 0])
SumNormal == SumSeq([i \in 1..Len(DV_listNormal) |-> DV_listNormal[i].nVal])
SumLocal == SumSeq([i \in 1..Len(DV_listLocal) |-> DV_listLocal[i].nVal])

\* the coefficients of the Normal groups, in the order of the vector
NormalCoefs == Flatten([idv \in 1..Len(DV_listNormal) |-> DV_listNormal[idv].coef_list])

\* the matrix r has the columns of the Normal and of the Local groups where
\* the vector has their components
NormalPart(r) ==
    \A k \in 1..Len(NormalCoefs) :
        \A e \in r.J.col[SumGlobal + k] :
            e[1] \in (3 * NormalCoefs[k])..(3 * NormalCoefs[k] + 2)
LocalPart(r) ==
    \A k \in 1..Len(LocalEntries) :
        r.J.col[SumGlobal + SumNormal + k] = {<<LocalEntries[k], 1>>}

\* C24: a calcCtlDeriv() call returns with as many columns written as the
\* matrix was allocated with, NdvGlobal + NdvNormal + NdvLocal of them: the
\* columns of the active Global components first, then one column per
\* coefficient of each Normal group, then three per coefficient of each
\* Local group.
C24_Orig_ColumnsFollowVector ==
    [][CalcCtlDeriv =>
          LET r == calcCtlDeriv
          IN  /\ r.err = "ok"
              /\ r.col_counter = r.J.Ndv
              /\ r.J.Ndv = SumGlobal + SumNormal + 3 * SumLocal
              /\ NormalPart(r)
              /\ LocalPart(r)]_vars

\* C25: getSizes returns the sum of nVal over the active Global variables,
\* the sum of nVal over the Normal groups, three times the sum of nVal over
\* the Local groups, and the number of global coefficients, whatever groups
\* are registered.
C25_Orig_SizesAreSums ==
    [][GetSizes =>
          (/\ ndv.err = "ok"
           /\ ndv.NdvGlobal = SumGlobal
           /\ ndv.NdvNormal = SumNormal
           /\ ndv.NdvLocal = 3 * SumLocal
           /\ ndv.Nctl = Len(coef))']_vars

-----------------------------------------------------------------------------
(* The assignment of the design groups *)

\* the group ids in use, and nDG as lines 1197-1205 count it
DGIds == {dgrun.edge_list[e].dg : e \in 1..Len(dgrun.edge_list)}
nDG == Max({-1} \cup DGIds) + 1

\* a patch has the same stitched edge in two opposite slots
SeamPatch ==
    \E s \in 1..nSurf : \E iedge \in 0..3 :
        dgrun.edge_link[s][iedge + 1] = dgrun.edge_link[s][flipEdge(iedge) + 1]

\* C27: the design-group assignment of calcEdgeConnectivity terminates for
\* every topology; when it has finished every edge has a group id and the
\* ids in use are exactly 0..nDG-1; the id of an edge is never changed once
\* it is set.
C27_GroupsAssigned ==
    /\ (dgrun.pc = "loop") ~> (dgrun.pc = "done")
    /\ [](dgrun.pc = "done" => (-1 \notin DGIds /\ DGIds = 0..(nDG - 1)))
    /\ [][\A e \in 1..Len(dgrun.edge_list) :
              dgrun.edge_list[e].dg # -1
                  => dgrun.edge_list[e].dg' = dgrun.edge_list[e].dg]_vars

\* the assignment has finished on a model with a seam patch and more than
\* one group
C27_Witness == dgrun.pc = "done" /\ SeamPatch /\ nDG > 1

-----------------------------------------------------------------------------
(* The bookkeeping of a design-variable group *)

\* the rows of local_coef_index are the grid locations of the ids of
\* coef_list, as the constructors fill them (lines 3198, 3278)
RowsAligned(dv) ==
    /\ Len(dv.local_coef_index) = Len(dv.coef_list)
    /\ \A k \in 1..Len(dv.coef_list) :
          dv.local_coef_index[k] = <<g_index[dv.coef_list[k] + 1][1][2],
                                     g_index[dv.coef_list[k] + 1][1][3]>>

\* C28: whatever registrations and evictions were made, every Normal and
\* Local group has nVal equal to the length of its coef_list, a value array
\* of nVal entries (3*nVal for a Local group), and in row k of
\* local_coef_index the grid location of coef_list[k].
C28_Orig_BookkeepingAligned ==
    /\ \A idv \in 1..Len(DV_listNormal) :
          /\ DV_listNormal[idv].nVal = Len(DV_listNormal[idv].coef_list)
          /\ Len(DV_listNormal[idv].value) = DV_listNormal[idv].nVal
          /\ RowsAligned(DV_listNormal[idv])
    /\ \A idv \in 1..Len(DV_listLocal) :
          /\ DV_listLocal[idv].nVal = Len(DV_listLocal[idv].coef_list)
          /\ Len(DV_listLocal[idv].value) = 3 * DV_listLocal[idv].nVal
          /\ RowsAligned(DV_listLocal[idv])

-----------------------------------------------------------------------------
(* The name maps *)

\* every name of the map is the name of the variable at its position
Named(list, names) ==
    \A n \in DOMAIN names :
        /\ names[n] + 1 \in 1..Len(list)
        /\ list[names[n] + 1].name = n

\* the map of the kind of call c has its name
Registered(c) ==
    c.name \in (IF c.kind = "Normal" THEN DOMAIN DV_namesNormal
                ELSE DOMAIN DV_namesLocal)

\* a call of addGeoDVNormal or addGeoDVLocal that found the ids it removes
\* from its list
AddCall == calls' # calls /\ err' # "ValueError"

\* C29: after any calls of addGeoDVGlobal, addGeoDVNormal and addGeoDVLocal
\* with distinct names, every variable asked for is registered and the map
\* of its kind sends its name to its position: DV_listGlobal[
\* DV_namesGlobal[n]], DV_listNormal[DV_namesNormal[n]] and DV_listLocal[
\* DV_namesLocal[n]] are the variables named n.
C29_Orig_NamesFindVariables ==
    /\ [](/\ Named(DV_listGlobal, DV_namesGlobal)
          /\ Named(DV_listNormal, DV_namesNormal)
          /\ Named(DV_listLocal, DV_namesLocal)
          /\ \A k \in 1..Len(DV_listGlobal) :
                DV_listGlobal[k].name \in DOMAIN DV_namesGlobal)
    /\ [][AddCall => Registered(calls[Len(calls)])']_vars

-----------------------------------------------------------------------------
(* Repeated updates *)

\* C30: update() called a second time, with no design-variable value
\* changed since the first call, leaves the reduced coefficient vector and
\* every patch control grid as the first call left them, also where a Local
\* group holds coefficients that are linked to no reference axis.
C30_Orig_UpdateIdempotent ==
    [][(UpdateAgain /\ err' = "ok") => (coef' = coef /\ surf_coef' = surf_coef)]_vars

====
